---- MODULE Spec2Model ----
(***************************************************************************)
(* Model of minecraft-modupdater.                                          *)
(*  - AsyncDownloader (src/downloader.py): a batch of download coroutines  *)
(*    sharing one asyncio.Semaphore, each running the resumable retry loop *)
(*    of _download_single against an HTTP server that serves one fixed     *)
(*    artifact per URL.  One action is the code between two await points   *)
(*    of a coroutine.                                                      *)
(*  - Version comparison (src/game_version.py), as operators on version    *)
(*    strings, and a caller applying them.                                 *)
(*  - The resolvers of src/workflow.py: one call scanning one catalog.     *)
(*  - fetch_metadata (src/workflow.py) and main's use of its result.       *)
(*  - compare_game_versions and fuzzy_compare_game_version, with the       *)
(*    pattern of the latter matched character by character.                *)
(*  - BaseSession.get_with_cache (src/utils.py): tasks sharing the cache   *)
(*    directory of one session.                                            *)
(***************************************************************************)
EXTENDS Integers, Sequences, FiniteSets, TLC

\* ---- bounds of the model ----
MaxBatch == 2        \* largest batch of download requests
MaxConcurrent == 1   \* largest max_concurrent tried
FileSize == 3        \* bytes of the artifact the server holds

\* ---- program constants ----
max_retries == 3

\* ---- files ----
NoFile == <<-1>>                          \* os.path.exists(path) is False
Artifact == [i \in 1..FileSize |-> i]     \* the complete artifact, byte i = i
OldFile == <<0>>                          \* a file already at the destination
Exists(f) == f # NoFile
GetSize(f) == Len(f)

\* headers["Range"]: NoRange when the key is absent, else the offset
NoRange == -1
Offset(r) == IF r = NoRange THEN 0 ELSE r

Failures == {"RuntimeError", "ClientError", "AttributeError", "FileNotFoundError"}

VARIABLES
  batch,            \* indices of download_tasks
  max_concurrent,   \* the semaphore's initial value
  semaphore,        \* self.semaphore._value
  pc,               \* position of each _download_single coroutine
  attempt,          \* loop variable of the retry loop
  downloaded_size,  \* local downloaded_size
  headers,          \* headers["Range"] of the request
  progress_bar,     \* local progress_bar is not None
  progress_bars,    \* keys of self.progress_bars
  temp_file,        \* content of save_path + ".tmp"
  save_file,        \* content of save_path
  body,             \* bytes of the response body not yet received
  result,           \* value returned by the coroutine
  log,              \* HTTP requests issued so far, with their outcome
  fs0,              \* the files as they were when download was called
  completion,       \* the coroutines in the order in which they returned
  results           \* the list download returns (<<>> until it returns)

dlvars == <<batch, max_concurrent, semaphore, pc, attempt, downloaded_size, headers,
            progress_bar, progress_bars, temp_file, save_file, body, result, log, fs0,
            completion, results>>

\* ---- state of a caller of compare_game_version (src/game_version.py) ----
VARIABLES
  arg0,             \* the two arguments as the caller first built them
  arg1, arg2,       \* the two argument objects (a list argument is mutated in place)
  out_fwd,          \* status returned by compare_game_version(arg1, arg2)
  out_bwd           \* status returned by compare_game_version(arg2, arg1)

cmpvars == <<arg0, arg1, arg2, out_fwd, out_bwd>>

\* ---- state of one resolver call, fetch_metadata_for_{cf,gh,mr}mod (src/workflow.py) ----
VARIABLES
  backend,               \* "cf", "gh" or "mr": which resolver runs
  target_version,        \* config['game_version']
  checks_after_latest,   \* session.checks_after_latest
  stream,                \* the catalog's entries for the mod, in catalog order
  rpc,                   \* where the resolver is: "start", "scan", "fetch", "end", "done"
  pos,                   \* number of catalog entries the scan loop has passed
  latest_found_version,
  selected_file,         \* position in stream of the selected entry, 0 for None
  last_latest_counter,
  outcome                \* what the call returned, or that it raised

rsvars == <<backend, target_version, checks_after_latest, stream, rpc, pos,
            latest_found_version, selected_file, last_latest_counter, outcome>>

\* ---- state of fetch_metadata (src/workflow.py) and of main's use of its result ----
VARIABLES
  df,               \* the mod list: for each row, what its address names
  policy,           \* session.verify_id_consistency
  phase,            \* "start", "verify", "cf", "gh", "mr", "returned", "raised",
                    \* "selected", "main_raised"
  ignore_set,
  index_map,
  tasks,            \* the tasks handed to asyncio.gather, in creation order
  finished,         \* task indices in the order the tasks completed
  fm_results,       \* the list `results`
  download_entries, \* main: rows selected for download
  session_log,      \* the sessions entered and left so far, in order
  in_flight         \* the tasks created and not yet finished, each with its backend

fmvars == <<df, policy, phase, ignore_set, index_map, tasks, finished, fm_results,
            download_entries, session_log, in_flight>>

\* ---- state of a caller of compare_game_versions or fuzzy_compare_game_version ----
VARIABLES
  best_call,        \* "versions": compare_game_versions, "fuzzy": fuzzy_compare_game_version
  best_version,     \* the first argument
  best_list,        \* version2_list, or names
  best_out          \* what the call returned

bovars == <<best_call, best_version, best_list, best_out>>

\* ---- state of BaseSession.get_with_cache (src/utils.py) ----
VARIABLES
  cache_expire,     \* config['cache_expire'], in days
  cache_dir,        \* the files of the cache directory: name -> content and mtime
  now,              \* time.time(), in seconds
  requests,         \* number of network requests issued
  written,          \* for each cache file, the response of the fetch that wrote it
  call,             \* for each caller, the request it awaits the response of
  ret               \* what the last call to return has returned, and to whom

chvars == <<cache_expire, cache_dir, now, requests, written, call, ret>>

vars == <<dlvars, cmpvars, rsvars, fmvars, bovars, chvars>>

(***************************************************************************)
(* Version strings (src/game_version.py).  A string is the list of the     *)
(* segments str.split('.') yields; a segment is its list of characters, a  *)
(* character being a digit 0..9 or Letter (any character int() rejects).   *)
(***************************************************************************)
MaxPatch == 1        \* largest patch number among the versions tried

Letter == 10
Minors == {20, 21}
Patches == 0..MaxPatch

\* VersionCompareStatus (src/enumcls.py)
Consistent == 0
OlderMinor == 1
OlderMajor == 2
NewerMinor == 3
NewerMajor == 4
InvalidVersion == 5

\* Python's None, where a list of integers is expected
None == <<>>

\* the characters of str(n)
Digits(n) == IF n < 10 THEN <<n>> ELSE <<n \div 10, n % 10>>
\* '.'.join(str(i) for i in ids), split at the dots
Format(ids) == [i \in 1..Len(ids) |-> Digits(ids[i])]

\* int(segment): defined when the segment is a non-empty run of digits
IsInt(seg) == Len(seg) > 0 /\ \A i \in 1..Len(seg) : seg[i] \in 0..9
RECURSIVE ToInt(_)
ToInt(seg) == IF Len(seg) = 0 THEN 0
              ELSE 10 * ToInt(SubSeq(seg, 1, Len(seg) - 1)) + seg[Len(seg)]

\* check_valid_game_version: the list of integers, or None
check_valid_game_version(game_version) ==
  IF Len(game_version) < 2 \/ Len(game_version) > 3 THEN None
  ELSE IF \E i \in 1..Len(game_version) : ~IsInt(game_version[i]) THEN None
  ELSE IF ToInt(game_version[1]) # 1 THEN None
  ELSE [i \in 1..Len(game_version) |-> ToInt(game_version[i])]

\* an argument of compare_game_version: a str or a list of integers
Str(segs) == [kind |-> "str", val |-> segs]
List(ids) == [kind |-> "list", val |-> ids]
\* the list the comparison works on: a str is parsed, a list is used as it is
Parsed(v) == IF v.kind = "str" THEN check_valid_game_version(v.val) ELSE v.val
\* lines 42-45: `if len(v) == 2: v.append(0)`
Append0(ids) == IF Len(ids) = 2 THEN Append(ids, 0) ELSE ids
\* the argument object after the call: a list argument keeps what was appended to it
After(v, ids) == IF v.kind = "list" THEN List(ids) ELSE v

\* compare_game_version with the patch test reversed
compare_game_version_reversed(version1, version2) ==
  LET l1 == Parsed(version1)
      l2 == Parsed(version2)
      same(st) == [status |-> st, v1 |-> version1, v2 |-> version2]
  IN IF l1 = None THEN same(InvalidVersion)
     ELSE IF l2 = None THEN same(InvalidVersion)
     ELSE IF l1 = l2 THEN same(Consistent)
     ELSE IF l1[2] = l2[2]
       THEN [status |-> IF Append0(l1)[3] < Append0(l2)[3] THEN OlderMinor ELSE NewerMinor,
             v1 |-> After(version1, Append0(l1)),
             v2 |-> After(version2, Append0(l2))]
     ELSE same(IF l1[2] > l2[2] THEN OlderMajor ELSE NewerMajor)

\* compare_game_version, lines 24-48: the status returned, and the two argument
\* objects as the call leaves them
compare_game_version(version1, version2) ==
  LET l1 == Parsed(version1)
      l2 == Parsed(version2)
      same(st) == [status |-> st, v1 |-> version1, v2 |-> version2]
  IN IF l1 = None THEN same(InvalidVersion)
     ELSE IF l2 = None THEN same(InvalidVersion)
     ELSE IF l1 = l2 THEN same(Consistent)
     ELSE IF l1[2] = l2[2]
       THEN [status |-> IF Append0(l1)[3] > Append0(l2)[3] THEN OlderMinor ELSE NewerMinor,
             v1 |-> After(version1, Append0(l1)),
             v2 |-> After(version2, Append0(l2))]
     ELSE same(IF l1[2] > l2[2] THEN OlderMajor ELSE NewerMajor)

\* ---- the versions tried ----
ValidLists == {<<1, m>> : m \in Minors} \cup {<<1, m, p>> : m \in Minors, p \in Patches}
ValidStrings == {Format(ids) : ids \in ValidLists}
InvalidStrings ==
  { Format(<<2, 21>>),                      \* "2.21"
    Format(<<1>>),                          \* "1"
    Format(<<1, 21, 1, 0>>),                \* "1.21.1.0"
    <<Digits(1), <<2, 1, Letter>>>>,        \* "1.21x"
    <<Digits(1), <<>>>>,                    \* "1."
    <<<<>>>> }                              \* ""
CompareArgs ==
  {Str(x) : x \in ValidStrings \cup InvalidStrings} \cup {List(ids) : ids \in ValidLists}

NotCalled == -1

(***************************************************************************)
(* compare_game_versions and fuzzy_compare_game_version: the best status   *)
(* over a list of version strings.  version1 is parsed once, and the list  *)
(* it is parsed to is the object every compare_game_version call of the    *)
(* loop receives.                                                          *)
(***************************************************************************)
RECURSIVE BestOfLoop(_, _, _, _, _)
\* the for loop of lines 63-73 (and 94-107), from its i-th iteration
BestOfLoop(version1, version2_list, i, final_res, version_res) ==
  IF i > Len(version2_list) THEN [tuple |-> TRUE, status |-> final_res, version |-> version_res]
  ELSE
    LET version2 == version2_list[i]
        r == compare_game_version(List(version1), Str(version2))
        res == r.status
        take == \/ res < final_res
                \/ /\ res = final_res
                   /\ res # InvalidVersion
                   /\ \/ version_res = None
                      \/ compare_game_version(Str(version_res), Str(version2)).status >= NewerMinor
        f == IF take THEN res ELSE final_res
        v == IF take THEN version2 ELSE version_res
    IN IF f = Consistent THEN [tuple |-> TRUE, status |-> f, version |-> v]
       ELSE BestOfLoop(r.v1.val, version2_list, i + 1, f, v)

\* compare_game_versions, lines 50-75; line 58 returns the bare status, not a pair
compare_game_versions(version1, version2_list) ==
  IF Parsed(version1) = None THEN [tuple |-> FALSE, status |-> InvalidVersion, version |-> None]
  ELSE BestOfLoop(Parsed(version1), version2_list, 1, InvalidVersion, None)

\* fuzzy_compare_game_version, lines 77-109, on the matches re.finditer yields over
\* the names, in scan order
fuzzy_compare_game_version(version, matches) ==
  IF check_valid_game_version(version) = None
    THEN [tuple |-> TRUE, status |-> InvalidVersion, version |-> None]
    ELSE BestOfLoop(check_valid_game_version(version), matches, 1, InvalidVersion, None)

(***************************************************************************)
(* Texts (release names and tags) and the pattern of                       *)
(* fuzzy_compare_game_version.  A text is its list of characters: a digit  *)
(* 0..9, Dot, Dash, the letters of "pre", or Letter for any other one.     *)
(***************************************************************************)
Dot == 11
Dash == 12
CharP == 13
CharR == 14
CharE == 15

RECURSIVE Split(_)
\* str.split('.')
Split(s) ==
  IF \A i \in 1..Len(s) : s[i] # Dot THEN <<s>>
  ELSE LET k == CHOOSE i \in 1..Len(s) : s[i] = Dot /\ \A j \in 1..(i - 1) : s[j] # Dot
       IN <<SubSeq(s, 1, k - 1)>> \o Split(SubSeq(s, k + 1, Len(s)))

RECURSIVE Join(_)
\* '.'.join(segments)
Join(segs) ==
  IF Len(segs) = 0 THEN <<>>
  ELSE IF Len(segs) = 1 THEN segs[1]
  ELSE segs[1] \o <<Dot>> \o Join(Tail(segs))

RECURSIVE DigitRun(_, _)
\* \d+ from position j: how many digits it takes when it takes all it can
DigitRun(s, j) == IF j <= Len(s) /\ s[j] \in 0..9 THEN 1 + DigitRun(s, j + 1) ELSE 0

\* is c the character at position j of s
At(s, j, c) == j >= 1 /\ j <= Len(s) /\ s[j] = c

\* the pattern without its optional patch group
MatchEndNoPatch(s, i) ==
  LET n1 == DigitRun(s, i + 2)
      c == i + 2 + n1
      pre == At(s, c, Dash) /\ At(s, c + 1, CharP) /\ At(s, c + 2, CharR) /\ At(s, c + 3, CharE)
  IN IF /\ ~(i > 1 /\ s[i - 1] \in (0..9) \cup {Dot})
        /\ At(s, i, 1)
        /\ At(s, i + 1, Dot)
        /\ n1 >= 1
     THEN IF pre THEN c + 4 ELSE c
     ELSE 0

\* the pattern of line 85 tried at position i: the position after the match, 0 for
\* no match.  (\d+) takes the whole run of digits; the optional patch group gives
\* back one digit when a dot follows its run, and is dropped when it has none to give
MatchEnd(s, i) ==
  LET n1 == DigitRun(s, i + 2)
      a == i + 2 + n1
      n2 == DigitRun(s, a + 1)
      b == a + 1 + n2
      c == IF At(s, a, Dot) /\ n2 >= 1
             THEN IF ~At(s, b, Dot) THEN b
                  ELSE IF n2 >= 2 THEN b - 1
                  ELSE a
             ELSE a
      pre == At(s, c, Dash) /\ At(s, c + 1, CharP) /\ At(s, c + 2, CharR) /\ At(s, c + 3, CharE)
  IN IF /\ ~(i > 1 /\ s[i - 1] \in (0..9) \cup {Dot})
        /\ At(s, i, 1)
        /\ At(s, i + 1, Dot)
        /\ n1 >= 1
     THEN IF pre THEN c + 4 ELSE c
     ELSE 0

RECURSIVE finditer(_, _)
\* [match.group() for match in re.finditer(pattern, s)], scanning from position i
finditer(s, i) ==
  IF i > Len(s) THEN <<>>
  ELSE IF MatchEnd(s, i) = 0 THEN finditer(s, i + 1)
  ELSE <<SubSeq(s, i, MatchEnd(s, i) - 1)>> \o finditer(s, MatchEnd(s, i))

RECURSIVE MatchesOf(_)
\* the matches the two loops of lines 94-95 pass, in order
MatchesOf(names) ==
  IF Len(names) = 0 THEN <<>>
  ELSE finditer(names[1], 1) \o MatchesOf(Tail(names))

\* fuzzy_compare_game_version on names; a match is handed on as the string it is
fuzzy_compare_names(version, names) ==
  fuzzy_compare_game_version(version, [i \in 1..Len(MatchesOf(names)) |-> Split(MatchesOf(names)[i])])

\* ---- the lists and texts tried ----
MaxList == 3         \* longest version2_list tried
RECURSIVE ListsUpTo(_, _)
ListsUpTo(S, n) == IF n = 0 THEN {<<>>} ELSE ListsUpTo(S, n - 1) \cup [1..n -> S]
VersionLists == ListsUpTo(ValidStrings \cup {<<Digits(1), <<2, 1, Letter>>>>}, MaxList)
BestTargets ==
  {Str(x) : x \in ValidStrings \cup {<<Digits(1), <<2, 1, Letter>>>>}}
    \cup {List(ids) : ids \in ValidLists}

\* "Release for MC 1.20.4 (stable)"
ScenarioText ==
  <<Letter, CharE, Letter, CharE, Letter, Letter, CharE, Letter,
    Letter, Letter, CharR, Letter, Letter, Letter, Letter,
    1, Dot, 2, 0, Dot, 4, Letter,
    Letter, Letter, Letter, Letter, Letter, Letter, CharE, Letter>>
Tokens ==
  {Join(v) : v \in ValidStrings}
    \cup {<<Dot>>, <<Letter>>, <<1>>, <<Dash, CharP, CharR, CharE>>}
Texts == Tokens \cup {a \o b : a, b \in Tokens}
Names ==
  {<<t>> : t \in Texts \cup {ScenarioText}} \cup {<<a, b>> : a, b \in Tokens}
FuzzyTargets == ValidStrings \cup {<<Digits(1), <<2, 1, Letter>>>>}

\* the value of best_out before the call returns
NoReturn == [tuple |-> FALSE, status |-> NotCalled, version |-> None]

(***************************************************************************)
(* Catalog entries (src/workflow.py).  An entry carries the fields the     *)
(* resolvers read:                                                         *)
(*   elig     "ok"; "skip": no assets (gh), loader absent or no files (mr);*)
(*            "nokey": the key the loop reads first is missing             *)
(*            ('prerelease' gh, 'loaders' mr, 'gameVersions' cf)           *)
(*   versions gameVersions (cf), game_versions (mr), version matches in    *)
(*            tag_name and name (gh)                                       *)
(*   type     "release" or "beta": releaseType (cf), version_type (mr),    *)
(*            prerelease (gh)                                              *)
(*   file_ok  the file has the keys the ModFile constructor indexes        *)
(***************************************************************************)
MaxStream == 3        \* longest catalog tried
MaxThreshold == 1     \* the configured checks_after_latest tried besides 0 and the default
PageSize == 2         \* entries per catalog page (pageSize 50 for cf, per_page 100 for gh)

DefaultChecksAfterLatest == 5

Backends == {"cf", "gh", "mr"}
Thresholds == {0, MaxThreshold, DefaultChecksAfterLatest}
Targets ==
  {Format(<<1, 21>>), Format(<<1, 21, 1>>), Format(<<1, 21, 2>>), <<Digits(1), <<2, 1, Letter>>>>}

Entry(elig, versions, type, file_ok) ==
  [elig |-> elig, versions |-> versions, type |-> type, file_ok |-> file_ok]
Release(versions) == Entry("ok", versions, "release", TRUE)
CatalogEntries ==
  { Release(<<Format(<<1, 20>>)>>),
    Release(<<Format(<<1, 20, 1>>)>>),
    Release(<<Format(<<1, 21>>)>>),
    Release(<<Format(<<1, 21, 1>>)>>),
    Release(<<Format(<<1, 21, 1>>), Format(<<1, 21>>)>>),
    Release(<<<<Digits(1), <<2, 1, Letter>>>>>>),
    Entry("ok", <<Format(<<1, 21>>)>>, "beta", TRUE),
    Entry("skip", <<Format(<<1, 21>>)>>, "release", TRUE),
    Entry("nokey", <<>>, "release", TRUE),
    Entry("ok", <<Format(<<1, 21>>)>>, "release", FALSE) }
Streams == UNION {[1..n -> CatalogEntries] : n \in 0..MaxStream}

\* what a resolver call has returned
Pending == [kind |-> "pending"]
Raised == [kind |-> "raised"]
Success(version, file) == [kind |-> "success", version |-> version, file |-> file]
Failure(info) == [kind |-> "failure", info |-> info]

\* the page holding the i-th entry
PageOf(i) == ((i - 1) \div PageSize) + 1
\* any(check_valid_game_version(x) is not None for x in file['gameVersions'])
HasValidVersion(e) ==
  \E j \in 1..Len(e.versions) : check_valid_game_version(e.versions[j]) # None

\* what the loop does with an entry before any comparison:
\*   cf line 104, gh lines 205-211, mr lines 273-280
Disposition(b, e) ==
  CASE b = "cf" -> IF HasValidVersion(e) THEN "eval" ELSE "skip"
    [] b = "gh" -> IF e.elig = "nokey" THEN "raise"
                   ELSE IF e.type = "beta" \/ e.elig = "skip" THEN "skip"
                   ELSE "eval"
    [] b = "mr" -> IF e.elig = "nokey" THEN "raise"
                   ELSE IF e.elig = "skip" \/ Len(e.versions) = 0 THEN "skip"
                   ELSE "eval"

\* cf lines 105/108, gh line 213, mr line 282
Classify(b, target, e) ==
  IF b = "gh" THEN fuzzy_compare_game_version(target, e.versions)
  ELSE compare_game_versions(Str(target), e.versions)

\* Classify, tabulated over the configurations and entries tried
Classified ==
  [b \in Backends, target \in Targets, e \in CatalogEntries |-> Classify(b, target, e)]

\* the acceptance test with NewerMinor let through
AcceptableOrNewerMinor(s) == s = Consistent \/ s = OlderMinor \/ s = NewerMinor
\* the acceptance test with OlderMajor let through
AcceptableOrOlderMajor(s) == s = Consistent \/ s = OlderMinor \/ s = OlderMajor
\* cf line 109, gh line 214, mr line 283
Acceptable(s) == s = Consistent \/ s = OlderMinor

\* no quality tie-break on any backend
TieBreakNever(b, s, sel, e) == FALSE
\* gh lines 223-224, mr lines 292-293: the quality tie-break (cf has none)
TieBreak(b, s, sel, e) ==
  CASE b = "gh" -> s = Consistent /\ sel.type # "beta" /\ e.type = "beta"
    [] b = "mr" -> s = Consistent /\ sel.type = "beta" /\ e.type = "release"
    [] b = "cf" -> FALSE

\* every acceptable candidate replacing the selection
AdoptsAnyAcceptable(b, s, version, latest, sel, e) == Acceptable(s)
\* the candidate replaces the selection: cf 112-121, gh 217-228, mr 286-297
Adopts(b, s, version, latest, sel, e) ==
  /\ Acceptable(s)
  /\ \/ latest = None
     \/ LET s2 == compare_game_version(Str(version), Str(latest)).status
        IN s2 = OlderMinor \/ s2 = OlderMajor \/ TieBreak(b, s2, sel, e)

\* the counter stepping on every candidate that is not adopted, selection or not
StreakCountsFromStart(adopt, sel, counter) == IF adopt THEN 0 ELSE counter + 1
\* last_latest_counter after a compared candidate: 0 when it is adopted (cf 115, 121),
\* one more when a file is selected already (cf 123, 128), else as it was; the same
\* at gh 221-232 and mr 290-301
Streak(adopt, sel, counter) ==
  IF adopt THEN 0
  ELSE IF sel # 0 THEN counter + 1
  ELSE counter

\* the threshold test with a strict comparison
ReachedStrict(counter, threshold) == counter > threshold
\* cf line 130, gh line 234, mr line 303
Reached(counter, threshold) == counter >= threshold

\* XModFile(latest_found_version, file): the constructor raises KeyError on a file
\* without its keys (and subscripting None raises TypeError); inside a try block the
\* resolver returns a Failure instead
NewModFile(version, file, in_try) ==
  IF file # 0 /\ stream[file].file_ok THEN Success(version, file)
  ELSE IF in_try THEN Failure("parse")
  ELSE Raised

\* the server's answer to the cf query filtered by gameVersion: positions of the
\* entries listing the target, first page only
FilteredPage(target) ==
  LET hits == {i \in 1..Len(stream) : \E j \in 1..Len(stream[i].versions) :
                                         stream[i].versions[j] = target}
  IN {i \in hits : Cardinality({h \in hits : h <= i}) <= PageSize}
\* cf line 104 on a page: a file without 'gameVersions' raises KeyError
PageParses(p) == \A i \in 1..Len(stream) : PageOf(i) = p => stream[i].elig # "nokey"

(***************************************************************************)
(* BaseSession.get_with_cache (src/utils.py).  A request is the text of    *)
(* base_url + url + parameters, a list of characters; a cache file is a    *)
(* list of lines; a response is its status, its JSON body and the value of *)
(* its Link header.                                                        *)
(***************************************************************************)
MaxClock == 2         \* the clock runs for this many half days
MaxFetches == 2       \* network requests issued at most

HalfDay == 12 * 3600
\* headers.get('Link', None) on a response without the header
NoLink == "None"
Bodies == {"releases page 1", "releases page 2"}
LinkValues == {NoLink, "<...page=2>; rel=\"next\""}
Responses ==
  [status : {200}, body : Bodies, link : LinkValues]
    \cup {[status |-> 404, body |-> "", link |-> NoLink]}
CachedRequests ==
  { <<"r", "/", "a", "?", "p">>, <<"r", "/", "a", "_", "p">>, <<"r", "/", "b">> }
Callers == {"task 1", "task 2"}
ExpireDays == {0, 1}

\* lines 46-47: the file name of a request
CacheFileName(r) ==
  [i \in 1..Len(r) |-> IF r[i] \in {":", "/", "?"} THEN "_" ELSE r[i]] \o <<".json">>
CacheFiles == {CacheFileName(r) : r \in CachedRequests}

\* no file of that name
NoCacheFile == [mtime |-> -1, content |-> <<>>]
\* json.dump(res, f) and json.load(f): the text of a body, and the body of a text
Dump(data) == <<<<"{", data>>>>
Load(lines) == lines[1][2]
\* lines 70-75 with the Link line never written
WriteCacheBodyOnly(resp) == Dump(resp.body)
\* lines 70-75: the lines written for a response
WriteCache(resp) ==
  IF resp.link # NoLink THEN <<<<"Link: ", resp.link>>>> \o Dump(resp.body)
  ELSE Dump(resp.body)
\* lines 55-63: the body and the Link value read back from the lines of a file
ReadCache(content) ==
  IF content[1][1] = "Link: "
    THEN [body |-> Load(Tail(content)), link |-> content[1][2]]
    ELSE [body |-> Load(content), link |-> NoLink]
\* lines 51-53: the file exists and is younger than cache_expire days
CacheFresh(f) ==
  /\ cache_dir[f] # NoCacheFile
  /\ (now - cache_dir[f].mtime) < cache_expire * 24 * 3600

\* what a call returned: from the cache, from the network, or an exception
NoValue == [kind |-> "none", caller |-> "", body |-> "", link |-> ""]
Returned_(kind, c, data, link) == [kind |-> kind, caller |-> c, body |-> data, link |-> link]
\* a caller between two calls
NoCall == <<>>

(***************************************************************************)
(* The mod list and the tasks of fetch_metadata (src/workflow.py).  A row  *)
(* is known by the backend its address names: "cf", "gh", "mr"; "gh_bad"   *)
(* and "mr_bad" name the backend without matching its URL pattern; "other" *)
(* names none of the three.                                                *)
(***************************************************************************)
MaxRows == 3          \* longest mod list tried

\* VerifyIdStatus (src/enumcls.py)
VERIFIED == 0
INVALID == 2
CONNECTIONFAILURE == 3

RowKinds == {"cf", "gh", "gh_bad", "mr", "mr_bad", "other"}
Policies == {"ignore", "warn", "error"}
ModLists == UNION {[1..n -> RowKinds] : n \in 1..MaxRows}
VerifyStatuses == {VERIFIED, INVALID, CONNECTIONFAILURE}

\* an entry of `results`: None, or the dict a resolver returned for the row
NoEntry == [none |-> TRUE]
RowResult(success, row) == [success |-> success, mod_id |-> row]
\* a task: running, finished with a value, or finished with an exception
Running == [st |-> "running"]
Done_(value) == [st |-> "done", value |-> value]
Failed == [st |-> "raised"]

\* the rows of the list whose kind is in K, in list order
RECURSIVE RowsOf(_, _, _)
RowsOf(d, K, i) ==
  IF i > Len(d) THEN <<>>
  ELSE IF d[i] \in K THEN <<i>> \o RowsOf(d, K, i + 1)
  ELSE RowsOf(d, K, i + 1)

\* lines 337-343: the rows the verification results add to ignore_set; the index
\* is the position of the result in _results
Unverified(p, ts) ==
  {j \in 1..Len(ts) :
     /\ ts[j].value # VERIFIED
     /\ p = "error" \/ ts[j].value # INVALID}

\* the values of the tasks in the order the tasks completed
AsCompleted(ts, order) == [j \in 1..Len(ts) |-> ts[order[j]].value]
\* asyncio.gather(*tasks): the values of the tasks in the order of the arguments
GatherValues(ts, order) == [j \in 1..Len(ts) |-> ts[j].value]

\* for idx, result in zip(index_map, xx_results): results[idx] = result
Assign(res, map, values) ==
  [i \in 1..Len(res) |->
     IF \E j \in 1..Len(map) : map[j] = i
       THEN values[CHOOSE j \in 1..Len(map) : map[j] = i]
       ELSE res[i]]
\* lines 379-382, 409-412: a row naming the backend with an unusable URL
MarkInvalid(res, d, kind) ==
  [i \in 1..Len(res) |-> IF d[i] = kind THEN RowResult(FALSE, i) ELSE res[i]]
NewTasks(n) == [j \in 1..n |-> Running]

\* `async with XSession(...) as session`: __aenter__ creates the ClientSession
Opened(slog, b) == Append(slog, [op |-> "open", backend |-> b])
\* leaving the block without closing the ClientSession
NotClosed(slog, b) == slog
\* leaving the block, by return or by exception: __aexit__ closes the ClientSession
Closed(slog, b) == Append(slog, [op |-> "close", backend |-> b])
\* the tasks asyncio.create_task has just created on the session of backend b
Created(b, n) == {[backend |-> b, task |-> j] : j \in 1..n}

\* ---- initial states ----
InitFiles ==
  [temp : {NoFile} \cup {SubSeq(Artifact, 1, n) : n \in 1..FileSize},
   save : {NoFile, OldFile}]

InitWith(n, files) ==
  /\ batch = 1..n
  /\ max_concurrent \in 1..MaxConcurrent
  /\ semaphore = max_concurrent
  /\ fs0 \in [batch -> files]
  /\ temp_file = [t \in batch |-> fs0[t].temp]
  /\ save_file = [t \in batch |-> fs0[t].save]
  /\ pc = [t \in batch |-> "start"]
  /\ attempt = [t \in batch |-> 0]
  /\ downloaded_size = [t \in batch |-> 0]
  /\ headers = [t \in batch |-> NoRange]
  /\ progress_bar = [t \in batch |-> FALSE]
  /\ progress_bars = {}
  /\ body = [t \in batch |-> <<>>]
  /\ result = [t \in batch |-> "pending"]
  /\ log = [t \in batch |-> <<>>]
  /\ completion = <<>>
  /\ results = <<>>

\* no comparison is under way
CmpIdle ==
  /\ arg0 = <<>>
  /\ arg1 = <<>>
  /\ arg2 = <<>>
  /\ out_fwd = NotCalled
  /\ out_bwd = NotCalled

\* no resolver call is under way
RsIdle ==
  /\ backend = "cf"
  /\ target_version = <<>>
  /\ checks_after_latest = DefaultChecksAfterLatest
  /\ stream = <<>>
  /\ rpc = "done"
  /\ pos = 0
  /\ latest_found_version = None
  /\ selected_file = 0
  /\ last_latest_counter = -1
  /\ outcome = Pending

\* fetch_metadata is not running
FmIdle ==
  /\ df = <<>>
  /\ policy = "ignore"
  /\ phase = "selected"
  /\ ignore_set = {}
  /\ index_map = <<>>
  /\ tasks = <<>>
  /\ finished = <<>>
  /\ fm_results = <<>>
  /\ download_entries = <<>>
  /\ session_log = <<>>
  /\ in_flight = {}

\* no best-of call is under way
BoIdle ==
  /\ best_call = "idle"
  /\ best_version = <<>>
  /\ best_list = <<>>
  /\ best_out = NoReturn

\* no cached request is under way
ChIdle ==
  /\ cache_expire = 1
  /\ cache_dir = <<>>
  /\ now = 0
  /\ requests = 0
  /\ written = <<>>
  /\ call = <<>>
  /\ ret = NoValue

\* no download is under way
DlIdle ==
  /\ batch = {}
  /\ max_concurrent = 1
  /\ semaphore = 1
  /\ fs0 = <<>>
  /\ temp_file = <<>>
  /\ save_file = <<>>
  /\ pc = <<>>
  /\ attempt = <<>>
  /\ downloaded_size = <<>>
  /\ headers = <<>>
  /\ progress_bar = <<>>
  /\ progress_bars = {}
  /\ body = <<>>
  /\ result = <<>>
  /\ log = <<>>
  /\ completion = <<>>
  /\ results = <<>>

\* a batch of fresh requests, some of them for a destination that already exists
BatchFiles == [temp : {NoFile}, save : {NoFile, OldFile}]

\* one request, over every state of its two files
Init == InitWith(1, InitFiles) /\ CmpIdle /\ RsIdle /\ FmIdle /\ BoIdle /\ ChIdle

\* a batch of several requests
InitBatch == (\E n \in 2..MaxBatch : InitWith(n, BatchFiles)) /\ CmpIdle /\ RsIdle /\ FmIdle /\ BoIdle /\ ChIdle

\* ---- helpers: the coroutine returns, leaving `async with self.semaphore` ----
Return(t, r, inside) ==
  /\ pc' = [pc EXCEPT ![t] = "done"]
  /\ result' = [result EXCEPT ![t] = r]
  /\ semaphore' = IF inside THEN semaphore + 1 ELSE semaphore

\* `if os.path.exists(temp_path): os.remove(temp_path)` applied to a file
KeepFile(f) == f
RemoveIfExists(f) == IF Exists(f) THEN NoFile ELSE f

\* lines 101-109: cleanup of the outer handler
OuterCleanup(t) ==
  /\ temp_file' = [temp_file EXCEPT ![t] = RemoveIfExists(temp_file[t])]
  /\ progress_bars' = progress_bars \ {t}

\* Start without the os.path.exists(save_path) test
StartNoCheck(t) ==
  /\ pc[t] = "start"
  /\ pc' = [pc EXCEPT ![t] = "acquire"]
  /\ UNCHANGED <<batch, max_concurrent, semaphore, attempt, downloaded_size, headers,
                 progress_bar, progress_bars, temp_file, save_file, body, result, log, fs0>>

\* ---- _download_single, lines 30-35 ----
Start(t) ==
  /\ pc[t] = "start"
  /\ IF Exists(save_file[t])
       THEN Return(t, "RuntimeError", FALSE)
       ELSE /\ pc' = [pc EXCEPT ![t] = "acquire"]
            /\ UNCHANGED <<result, semaphore>>
  /\ UNCHANGED <<batch, max_concurrent, attempt, downloaded_size, headers, progress_bar,
                 progress_bars, temp_file, save_file, body, log, fs0>>

\* Acquire that does not wait for a free slot
AcquireNoWait(t) ==
  /\ pc[t] = "acquire"
  /\ semaphore' = semaphore - 1
  /\ IF Exists(temp_file[t])
       THEN /\ downloaded_size' = [downloaded_size EXCEPT ![t] = GetSize(temp_file[t])]
            /\ headers' = [headers EXCEPT ![t] = GetSize(temp_file[t])]
       ELSE UNCHANGED <<downloaded_size, headers>>
  /\ pc' = [pc EXCEPT ![t] = "request"]
  /\ UNCHANGED <<batch, max_concurrent, attempt, progress_bar, progress_bars, temp_file,
                 save_file, body, result, log, fs0>>

\* ---- lines 37-43: enter the semaphore, look for a partial temp file ----
Acquire(t) ==
  /\ pc[t] = "acquire"
  /\ semaphore > 0
  /\ semaphore' = semaphore - 1
  /\ IF Exists(temp_file[t])
       THEN /\ downloaded_size' = [downloaded_size EXCEPT ![t] = GetSize(temp_file[t])]
            /\ headers' = [headers EXCEPT ![t] = GetSize(temp_file[t])]
       ELSE UNCHANGED <<downloaded_size, headers>>
  /\ pc' = [pc EXCEPT ![t] = "request"]
  /\ UNCHANGED <<batch, max_concurrent, attempt, progress_bar, progress_bars, temp_file,
                 save_file, body, result, log, fs0>>

\* OnTransient that gives its slot back for the time of the backoff sleep
OnTransientReleasesSlot(t) ==
  IF attempt[t] = max_retries - 1
    THEN /\ OuterCleanup(t)
         /\ Return(t, IF progress_bar[t] THEN "ClientError" ELSE "AttributeError", TRUE)
         /\ UNCHANGED attempt
    ELSE /\ pc' = [pc EXCEPT ![t] = "sleep"]
         /\ semaphore' = semaphore + 1
         /\ UNCHANGED <<result, temp_file, progress_bars, attempt>>

\* OnTransient whose final attempt returns the error and leaves the temp file
OnTransientLeavesTemp(t) ==
  IF attempt[t] = max_retries - 1
    THEN /\ progress_bars' = progress_bars \ {t}
         /\ Return(t, IF progress_bar[t] THEN "ClientError" ELSE "AttributeError", TRUE)
         /\ UNCHANGED <<attempt, temp_file>>
    ELSE /\ pc' = [pc EXCEPT ![t] = "sleep"]
         /\ UNCHANGED <<result, semaphore, temp_file, progress_bars, attempt>>

\* ---- lines 91-109: aiohttp.ClientError / asyncio.TimeoutError in an attempt ----
OnTransient(t) ==
  IF attempt[t] = max_retries - 1
    THEN \* final attempt: remove the temp file; progress_bar.close() raises
         \* AttributeError when no response ever created the bar; either exception
         \* reaches the outer handler, which returns it
         /\ OuterCleanup(t)
         /\ Return(t, IF progress_bar[t] THEN "ClientError" ELSE "AttributeError", TRUE)
         /\ UNCHANGED attempt
    ELSE \* await asyncio.sleep(2 ** attempt)
         /\ pc' = [pc EXCEPT ![t] = "sleep"]
         /\ UNCHANGED <<result, semaphore, temp_file, progress_bars, attempt>>

\* ---- lines 52-54: status 416 ----
On416(t) ==
  IF ~Exists(temp_file[t])
    THEN \* os.remove raises FileNotFoundError, caught by the outer handler
         /\ OuterCleanup(t)
         /\ Return(t, "FileNotFoundError", TRUE)
         /\ UNCHANGED attempt
    ELSE /\ temp_file' = [temp_file EXCEPT ![t] = NoFile]
         /\ UNCHANGED progress_bars
         /\ IF attempt[t] + 1 = max_retries
              THEN \* `continue` on the last iteration: the loop ends, the function
                   \* falls off its end and returns None
                   /\ Return(t, "None", TRUE)
                   /\ UNCHANGED attempt
              ELSE /\ attempt' = [attempt EXCEPT ![t] = attempt[t] + 1]
                   /\ UNCHANGED <<pc, result, semaphore>>

\* ---- lines 56-80: a 2xx response; create the bar, open the temp file ----
OnResponse(t) ==
  /\ body' = [body EXCEPT ![t] = SubSeq(Artifact, Offset(headers[t]) + 1, FileSize)]
  /\ progress_bar' = [progress_bar EXCEPT ![t] = TRUE]
  /\ progress_bars' = progress_bars \cup {t}
  /\ temp_file' = [temp_file EXCEPT ![t] =
                     IF downloaded_size[t] > 0 /\ Exists(temp_file[t])
                       THEN temp_file[t]      \* mode "ab" on an existing file
                       ELSE <<>>]             \* "wb", or "ab" creating the file
  /\ pc' = [pc EXCEPT ![t] = "stream"]
  /\ UNCHANGED <<attempt, result, semaphore>>

\* the server's answer to a request carrying Range offset r (or none)
ServerStatus(r) ==
  IF r # NoRange /\ r >= FileSize THEN {"416", "error"} ELSE {"ok", "error"}

\* ---- lines 49-50: one HTTP request and the arrival of its response ----
Get(t) ==
  /\ pc[t] = "request"
  /\ \E status \in ServerStatus(headers[t]) :
       /\ log' = [log EXCEPT ![t] = Append(@, [range |-> headers[t], status |-> status])]
       /\ CASE status = "ok" -> OnResponse(t)
            [] status = "416" -> On416(t) /\ UNCHANGED <<body, progress_bar>>
            [] OTHER -> OnTransient(t) /\ UNCHANGED <<body, progress_bar>>
  /\ UNCHANGED <<batch, max_concurrent, downloaded_size, headers, save_file, fs0>>

\* ---- lines 81-83: one chunk of response.content.iter_any() ----
Chunk(t) ==
  /\ pc[t] = "stream"
  /\ body[t] # <<>>
  /\ \E k \in 1..Len(body[t]) :
       /\ temp_file' = [temp_file EXCEPT ![t] = @ \o SubSeq(body[t], 1, k)]
       /\ body' = [body EXCEPT ![t] = SubSeq(@, k + 1, Len(@))]
  /\ UNCHANGED <<batch, max_concurrent, semaphore, pc, attempt, downloaded_size, headers,
                 progress_bar, progress_bars, save_file, result, log, fs0>>

\* ---- the connection fails or times out while the body is streamed ----
StreamError(t) ==
  /\ pc[t] = "stream"
  /\ OnTransient(t)
  /\ UNCHANGED <<batch, max_concurrent, downloaded_size, headers, progress_bar,
                 save_file, body, log, fs0>>

\* StreamEnd that renames without waiting for the end of the body
StreamEndEarly(t) ==
  /\ pc[t] = "stream"
  /\ save_file' = [save_file EXCEPT ![t] = temp_file[t]]
  /\ temp_file' = [temp_file EXCEPT ![t] = NoFile]
  /\ progress_bars' = progress_bars \ {t}
  /\ Return(t, "True", TRUE)
  /\ UNCHANGED <<batch, max_concurrent, attempt, downloaded_size, headers, progress_bar,
                 body, log, fs0>>

\* ---- lines 85-89: the body ended; rename and return True ----
StreamEnd(t) ==
  /\ pc[t] = "stream"
  /\ body[t] = <<>>
  /\ save_file' = [save_file EXCEPT ![t] = temp_file[t]]
  /\ temp_file' = [temp_file EXCEPT ![t] = NoFile]
  /\ progress_bars' = progress_bars \ {t}
  /\ Return(t, "True", TRUE)
  /\ UNCHANGED <<batch, max_concurrent, attempt, downloaded_size, headers, progress_bar,
                 body, log, fs0>>

\* Wake that starts the same attempt again
WakeSameAttempt(t) ==
  /\ pc[t] = "sleep"
  /\ pc' = [pc EXCEPT ![t] = "request"]
  /\ UNCHANGED <<batch, max_concurrent, semaphore, attempt, downloaded_size, headers,
                 progress_bar, progress_bars, temp_file, save_file, body, result, log, fs0>>

\* ---- line 99: the backoff sleep ends, next iteration of the loop ----
Wake(t) ==
  /\ pc[t] = "sleep"
  /\ attempt' = [attempt EXCEPT ![t] = attempt[t] + 1]
  /\ pc' = [pc EXCEPT ![t] = "request"]
  /\ UNCHANGED <<batch, max_concurrent, semaphore, downloaded_size, headers, progress_bar,
                 progress_bars, temp_file, save_file, body, result, log, fs0>>

\* asyncio.gather returns the coroutines' values in the order of its arguments
GatherAsCompleted ==
  /\ results = <<>>
  /\ \A t \in batch : pc[t] = "done"
  /\ results' = [i \in 1..Len(completion) |-> result[completion[i]]]
  /\ UNCHANGED <<batch, max_concurrent, semaphore, pc, attempt, downloaded_size, headers,
                 progress_bar, progress_bars, temp_file, save_file, body, result, log, fs0,
                 completion>>

\* ---- download, lines 123-136: every coroutine returned, gather returns ----
Gather ==
  /\ results = <<>>
  /\ \A t \in batch : pc[t] = "done"
  /\ results' = [i \in 1..Cardinality(batch) |-> result[i]]
  /\ UNCHANGED <<batch, max_concurrent, semaphore, pc, attempt, downloaded_size, headers,
                 progress_bar, progress_bars, temp_file, save_file, body, result, log, fs0,
                 completion>>

\* a step of a coroutine: `completion` records the coroutine that returned in it
CoroutineStep ==
  /\ completion' = IF \E t \in batch : pc[t] # "done" /\ pc'[t] = "done"
                     THEN Append(completion,
                                 CHOOSE t \in batch : pc[t] # "done" /\ pc'[t] = "done")
                     ELSE completion
  /\ UNCHANGED <<results, cmpvars, rsvars, fmvars, bovars, chvars>>

\* the download manager; the order in which the coroutines return is not recorded
Next ==
  \/ (\E t \in batch : Start(t)) /\ UNCHANGED <<completion, results, cmpvars, rsvars, fmvars, bovars, chvars>>
  \/ (\E t \in batch : Acquire(t)) /\ UNCHANGED <<completion, results, cmpvars, rsvars, fmvars, bovars, chvars>>
  \/ (\E t \in batch : Get(t)) /\ UNCHANGED <<completion, results, cmpvars, rsvars, fmvars, bovars, chvars>>
  \/ (\E t \in batch : Chunk(t)) /\ UNCHANGED <<completion, results, cmpvars, rsvars, fmvars, bovars, chvars>>
  \/ (\E t \in batch : StreamError(t)) /\ UNCHANGED <<completion, results, cmpvars, rsvars, fmvars, bovars, chvars>>
  \/ (\E t \in batch : StreamEnd(t)) /\ UNCHANGED <<completion, results, cmpvars, rsvars, fmvars, bovars, chvars>>
  \/ (\E t \in batch : Wake(t)) /\ UNCHANGED <<completion, results, cmpvars, rsvars, fmvars, bovars, chvars>>
  \/ Gather /\ UNCHANGED <<cmpvars, rsvars, fmvars, bovars, chvars>>

\* the download manager, with the order in which the coroutines return
NextGather ==
  \/ (\E t \in batch : Start(t)) /\ CoroutineStep
  \/ (\E t \in batch : Acquire(t)) /\ CoroutineStep
  \/ (\E t \in batch : Get(t)) /\ CoroutineStep
  \/ (\E t \in batch : Chunk(t)) /\ CoroutineStep
  \/ (\E t \in batch : StreamError(t)) /\ CoroutineStep
  \/ (\E t \in batch : StreamEnd(t)) /\ CoroutineStep
  \/ (\E t \in batch : Wake(t)) /\ CoroutineStep
  \/ Gather /\ UNCHANGED <<cmpvars, rsvars, fmvars, bovars, chvars>>

Spec == Init /\ [][Next]_vars

SpecBatch == InitBatch /\ [][Next]_vars

\* one request under an event loop that keeps running what is ready: a pending
\* request is answered or times out, a sleep ends, a ready coroutine is resumed
SpecTerminates == Init /\ [][Next]_vars /\ WF_vars(Next)

\* a batch of two requests: the smallest batch whose coroutines can return in an
\* order other than the order of the list
InitGather == InitWith(2, BatchFiles) /\ CmpIdle /\ RsIdle /\ FmIdle /\ BoIdle /\ ChIdle
SpecGather == InitGather /\ [][NextGather]_vars

(***************************************************************************)
(* A caller of compare_game_version: two arguments, compared in both       *)
(* orders, in either order of the two calls.                               *)
(***************************************************************************)
InitCompare ==
  /\ arg0 \in CompareArgs \X CompareArgs
  /\ arg1 = arg0[1]
  /\ arg2 = arg0[2]
  /\ out_fwd = NotCalled
  /\ out_bwd = NotCalled
  /\ DlIdle
  /\ RsIdle
  /\ FmIdle
  /\ BoIdle
  /\ ChIdle

\* compare_game_version(arg1, arg2)
CompareForward ==
  /\ out_fwd = NotCalled
  /\ LET r == compare_game_version(arg1, arg2)
     IN /\ out_fwd' = r.status
        /\ arg1' = r.v1
        /\ arg2' = r.v2
  /\ UNCHANGED <<arg0, out_bwd, dlvars, rsvars, fmvars, bovars, chvars>>

\* compare_game_version(arg2, arg1)
CompareBackward ==
  /\ out_bwd = NotCalled
  /\ LET r == compare_game_version(arg2, arg1)
     IN /\ out_bwd' = r.status
        /\ arg2' = r.v1
        /\ arg1' = r.v2
  /\ UNCHANGED <<arg0, out_fwd, dlvars, rsvars, fmvars, bovars, chvars>>

NextCompare ==
  \/ CompareForward
  \/ CompareBackward

SpecCompare == InitCompare /\ [][NextCompare]_vars

(***************************************************************************)
(* A caller of compare_game_versions, on a list of version strings, or of  *)
(* fuzzy_compare_game_version, on one or two texts.                        *)
(***************************************************************************)
InitBestOf ==
  /\ \/ /\ best_call = "versions"
        /\ best_version \in BestTargets
        /\ best_list \in VersionLists
     \/ /\ best_call = "fuzzy"
        /\ best_version \in FuzzyTargets
        /\ best_list \in Names
  /\ best_out = NoReturn
  /\ DlIdle
  /\ CmpIdle
  /\ RsIdle
  /\ FmIdle
  /\ ChIdle

\* compare_game_versions(best_version, best_list)
CallCompareVersions ==
  /\ best_call = "versions"
  /\ best_out = NoReturn
  /\ best_out' = compare_game_versions(best_version, best_list)
  /\ UNCHANGED <<best_call, best_version, best_list, dlvars, cmpvars, rsvars, fmvars, chvars>>

\* fuzzy_compare_game_version(best_version, best_list)
CallFuzzyCompare ==
  /\ best_call = "fuzzy"
  /\ best_out = NoReturn
  /\ best_out' = fuzzy_compare_names(best_version, best_list)
  /\ UNCHANGED <<best_call, best_version, best_list, dlvars, cmpvars, rsvars, fmvars, chvars>>

NextBestOf ==
  \/ CallCompareVersions
  \/ CallFuzzyCompare

SpecBestOf == InitBestOf /\ [][NextBestOf]_vars

(***************************************************************************)
(* Callers of get_with_cache on one session: two tasks, whose calls may    *)
(* overlap at the await of the network request, while time passes.         *)
(***************************************************************************)
InitCache ==
  /\ cache_expire \in ExpireDays
  /\ cache_dir = [f \in CacheFiles |-> NoCacheFile]
  /\ now = 0
  /\ requests = 0
  /\ written = [f \in CacheFiles |-> NoValue]
  /\ call = [c \in Callers |-> NoCall]
  /\ ret = NoValue
  /\ DlIdle
  /\ CmpIdle
  /\ RsIdle
  /\ FmIdle
  /\ BoIdle

\* lines 42-65: the call up to its return from the cache, or up to the request
GetWithCache(c, r) ==
  /\ call[c] = NoCall
  /\ IF CacheFresh(CacheFileName(r))
       THEN /\ ret' = Returned_("hit", c, ReadCache(cache_dir[CacheFileName(r)].content).body,
                                ReadCache(cache_dir[CacheFileName(r)].content).link)
            /\ UNCHANGED <<requests, call>>
       ELSE /\ requests < MaxFetches
            /\ requests' = requests + 1
            /\ call' = [call EXCEPT ![c] = r]
            /\ UNCHANGED ret
  /\ UNCHANGED <<cache_expire, cache_dir, now, written>>
  /\ UNCHANGED <<dlvars, cmpvars, rsvars, fmvars, bovars>>

\* lines 65-76: the response arrives; a status other than 200 raises
Respond(c, resp) ==
  /\ call[c] # NoCall
  /\ call' = [call EXCEPT ![c] = NoCall]
  /\ IF resp.status # 200
       THEN /\ ret' = Returned_("raised", c, "", "")
            /\ UNCHANGED <<cache_dir, written>>
       ELSE /\ cache_dir' = [cache_dir EXCEPT ![CacheFileName(call[c])] =
                               [mtime |-> now, content |-> WriteCache(resp)]]
            /\ written' = [written EXCEPT ![CacheFileName(call[c])] =
                             Returned_("miss", c, resp.body, resp.link)]
            /\ ret' = Returned_("miss", c, resp.body, resp.link)
  /\ UNCHANGED <<cache_expire, now, requests>>
  /\ UNCHANGED <<dlvars, cmpvars, rsvars, fmvars, bovars>>

\* half a day passes
Tick ==
  /\ now < MaxClock * HalfDay
  /\ now' = now + HalfDay
  /\ UNCHANGED <<cache_expire, cache_dir, requests, written, call, ret>>
  /\ UNCHANGED <<dlvars, cmpvars, rsvars, fmvars, bovars>>

NextCache ==
  \/ \E c \in Callers : \E r \in CachedRequests : GetWithCache(c, r)
  \/ \E c \in Callers : \E resp \in Responses : Respond(c, resp)
  \/ Tick

SpecCache == InitCache /\ [][NextCache]_vars

(***************************************************************************)
(* One resolver call: fetch_metadata_for_cfmod, fetch_metadata_for_ghmod   *)
(* or fetch_metadata_for_mrmod on one catalog.                             *)
(***************************************************************************)
InitResolve ==
  /\ backend \in Backends
  /\ target_version \in Targets
  /\ checks_after_latest \in Thresholds
  /\ stream \in Streams
  /\ rpc = "start"
  /\ pos = 0
  /\ latest_found_version = None
  /\ selected_file = 0
  /\ last_latest_counter = -1
  /\ outcome = Pending
  /\ DlIdle
  /\ CmpIdle
  /\ FmIdle
  /\ BoIdle
  /\ ChIdle

\* the call returns o, or raises
Resolved(o) ==
  /\ rpc' = "done"
  /\ outcome' = o

\* where the loop goes after the i-th entry, if it did not return
AfterEntry(i) ==
  IF i = Len(stream) THEN "end"
  ELSE IF backend # "mr" /\ i % PageSize = 0 THEN "fetch"
  ELSE "scan"

\* the filtered branch taking the first file of the page whatever its releaseType
FilteredBranchFirstFile ==
  LET page == FilteredPage(target_version)
      first(S) == CHOOSE i \in S : \A j \in S : i <= j
  IN NewModFile(target_version, first(page), TRUE)

\* cf lines 150-168: the filtered query found files
FilteredBranch ==
  LET page == FilteredPage(target_version)
      releases == {i \in page : stream[i].type = "release"}
      first(S) == CHOOSE i \in S : \A j \in S : i <= j
  IN NewModFile(target_version, IF releases # {} THEN first(releases) ELSE first(page), TRUE)

\* the first request is answered: cf lines 58-80 (the filtered query, then the
\* unfiltered one), gh line 196 (page 1), mr line 259
Request ==
  /\ rpc = "start"
  /\ CASE backend = "cf" ->
            IF FilteredPage(target_version) # {} THEN Resolved(FilteredBranch)
            ELSE IF Len(stream) = 0 THEN Resolved(Failure("nomatch"))
            ELSE IF ~PageParses(1) THEN Resolved(Failure("parse"))
            ELSE rpc' = "scan" /\ outcome' = outcome
       [] backend = "gh" ->
            IF Len(stream) = 0 THEN Resolved(Failure("nomatch"))
            ELSE rpc' = "scan" /\ outcome' = outcome
       [] backend = "mr" ->
            IF Len(stream) = 0 THEN Resolved(Failure("nomatch"))
            ELSE rpc' = "scan" /\ outcome' = outcome
  /\ UNCHANGED <<backend, target_version, checks_after_latest, stream, pos,
                 latest_found_version, selected_file, last_latest_counter>>
  /\ UNCHANGED <<dlvars, cmpvars, fmvars, bovars, chvars>>

\* a failing request for a later page answered with the file selected so far
RequestFailsReturnsBest ==
  /\ rpc \in {"start", "fetch"}
  /\ Resolved(IF selected_file # 0 THEN NewModFile(latest_found_version, selected_file, FALSE)
              ELSE Failure("connection"))
  /\ UNCHANGED <<backend, target_version, checks_after_latest, stream, pos,
                 latest_found_version, selected_file, last_latest_counter>>
  /\ UNCHANGED <<dlvars, cmpvars, fmvars, bovars, chvars>>

\* a request fails: cf lines 68-70, 78-80, 95-97; gh lines 197-199; mr lines 260-262
RequestFails ==
  /\ rpc \in {"start", "fetch"}
  /\ Resolved(Failure("connection"))
  /\ UNCHANGED <<backend, target_version, checks_after_latest, stream, pos,
                 latest_found_version, selected_file, last_latest_counter>>
  /\ UNCHANGED <<dlvars, cmpvars, fmvars, bovars, chvars>>

\* the next page arrives: cf lines 92-104, gh lines 196-204
FetchPage ==
  /\ rpc = "fetch"
  /\ IF backend = "cf" /\ ~PageParses(PageOf(pos + 1))
       THEN Resolved(Failure("parse"))
       ELSE rpc' = "scan" /\ outcome' = outcome
  /\ UNCHANGED <<backend, target_version, checks_after_latest, stream, pos,
                 latest_found_version, selected_file, last_latest_counter>>
  /\ UNCHANGED <<dlvars, cmpvars, fmvars, bovars, chvars>>

\* one iteration of the scan loop: cf lines 108-134, gh lines 204-236, mr lines 272-305
Visit ==
  /\ rpc = "scan"
  /\ pos < Len(stream)
  /\ pos' = pos + 1
  /\ LET i == pos + 1
         e == stream[i]
         d == Disposition(backend, e)
         c == Classified[backend, target_version, e]
         adopt == Adopts(backend, c.status, c.version, latest_found_version,
                         IF selected_file = 0 THEN e ELSE stream[selected_file], e)
         counter == Streak(adopt, selected_file, last_latest_counter)
         version == IF adopt THEN c.version ELSE latest_found_version
         file == IF adopt THEN i ELSE selected_file
     IN CASE d = "raise" ->
               /\ Resolved(Raised)
               /\ UNCHANGED <<latest_found_version, selected_file, last_latest_counter>>
          [] d = "skip" ->
               /\ rpc' = AfterEntry(i)
               /\ UNCHANGED <<latest_found_version, selected_file, last_latest_counter, outcome>>
          [] d = "eval" /\ ~c.tuple ->
               /\ Resolved(IF backend = "cf" THEN Failure("parse") ELSE Raised)
               /\ UNCHANGED <<latest_found_version, selected_file, last_latest_counter>>
          [] d = "eval" /\ c.tuple ->
               /\ latest_found_version' = version
               /\ selected_file' = file
               /\ last_latest_counter' = counter
               /\ IF Reached(counter, checks_after_latest)
                    THEN Resolved(NewModFile(version, file, backend = "cf"))
                    ELSE rpc' = AfterEntry(i) /\ outcome' = outcome
  /\ UNCHANGED <<backend, target_version, checks_after_latest, stream>>
  /\ UNCHANGED <<dlvars, cmpvars, fmvars, bovars, chvars>>

\* the end of the catalog reported as no match whether or not a file was selected
ExhaustedNoMatch ==
  /\ rpc = "end"
  /\ Resolved(Failure("nomatch"))
  /\ UNCHANGED <<backend, target_version, checks_after_latest, stream, pos,
                 latest_found_version, selected_file, last_latest_counter>>
  /\ UNCHANGED <<dlvars, cmpvars, fmvars, bovars, chvars>>

\* the catalog is exhausted: cf lines 141-148, gh lines 244-246, mr lines 307-310
Exhausted ==
  /\ rpc = "end"
  /\ Resolved(IF selected_file # 0 THEN NewModFile(latest_found_version, selected_file, FALSE)
              ELSE Failure("nomatch"))
  /\ UNCHANGED <<backend, target_version, checks_after_latest, stream, pos,
                 latest_found_version, selected_file, last_latest_counter>>
  /\ UNCHANGED <<dlvars, cmpvars, fmvars, bovars, chvars>>

NextResolve ==
  \/ Request
  \/ RequestFails
  \/ FetchPage
  \/ Visit
  \/ Exhausted

SpecResolve == InitResolve /\ [][NextResolve]_vars

(***************************************************************************)
(* fetch_metadata on one mod list, and main's selection of the rows to     *)
(* download.  Every resolver task returns a Success or a Failure for its   *)
(* row, or raises.                                                         *)
(***************************************************************************)
InitFetch ==
  /\ df \in ModLists
  /\ policy \in Policies
  /\ phase = "start"
  /\ ignore_set = {}
  /\ index_map = <<>>
  /\ tasks = <<>>
  /\ finished = <<>>
  /\ fm_results = [i \in 1..Len(df) |-> NoEntry]
  /\ download_entries = <<>>
  /\ session_log = <<>>
  /\ in_flight = {}
  /\ DlIdle
  /\ CmpIdle
  /\ RsIdle
  /\ BoIdle
  /\ ChIdle

\* lines 345-357: a resolver task for every CurseForge row not in the ignore set
StartCurseForge(ignore) ==
  /\ index_map' = SelectSeq(RowsOf(df, {"cf"}, 1), LAMBDA i : i \notin ignore)
  /\ tasks' = NewTasks(Len(index_map'))
  /\ in_flight' = in_flight \cup Created("cf", Len(index_map'))
  /\ finished' = <<>>
  /\ phase' = "cf"

\* lines 317-334 (and 345-357 under the 'ignore' policy): up to the first gather
Begin ==
  /\ phase = "start"
  /\ IF policy # "ignore"
       THEN /\ ignore_set' = {i \in 1..Len(df) : df[i] # "cf"}
            /\ tasks' = NewTasks(Len(RowsOf(df, {"cf"}, 1)))
            /\ in_flight' = in_flight \cup Created("cf", Len(RowsOf(df, {"cf"}, 1)))
            /\ finished' = <<>>
            /\ phase' = "verify"
            /\ UNCHANGED index_map
       ELSE /\ StartCurseForge({})
            /\ UNCHANGED ignore_set
  /\ session_log' = Opened(session_log, "cf")
  /\ UNCHANGED <<df, policy, fm_results, download_entries>>
  /\ UNCHANGED <<dlvars, cmpvars, rsvars, bovars, chvars>>

\* a verify_id_consistency task returns its status (lines 18-39)
VerifyCompletes ==
  /\ phase = "verify"
  /\ \E j \in 1..Len(tasks) : \E status \in VerifyStatuses :
       /\ tasks[j] = Running
       /\ tasks' = [tasks EXCEPT ![j] = Done_(status)]
       /\ in_flight' = in_flight \ {[backend |-> "cf", task |-> j]}
       /\ finished' = Append(finished, j)
  /\ UNCHANGED <<df, policy, phase, ignore_set, index_map, fm_results, download_entries,
                 session_log>>
  /\ UNCHANGED <<dlvars, cmpvars, rsvars, bovars, chvars>>

\* lines 336-357: the verification gather returns
VerifyGathered ==
  /\ phase = "verify"
  /\ \A j \in 1..Len(tasks) : tasks[j] # Running
  /\ ignore_set' = ignore_set \cup Unverified(policy, tasks)
  /\ StartCurseForge(ignore_set')
  /\ UNCHANGED <<df, policy, fm_results, download_entries, session_log>>
  /\ UNCHANGED <<dlvars, cmpvars, rsvars, bovars, chvars>>

\* a resolver task returns the result for its row
TaskCompletes ==
  /\ phase \in {"cf", "gh", "mr"}
  /\ \E j \in 1..Len(tasks) : \E success \in BOOLEAN :
       /\ tasks[j] = Running
       /\ tasks' = [tasks EXCEPT ![j] = Done_(RowResult(success, index_map[j]))]
       /\ in_flight' = in_flight \ {[backend |-> phase, task |-> j]}
       /\ finished' = Append(finished, j)
  /\ UNCHANGED <<df, policy, phase, ignore_set, index_map, fm_results, download_entries,
                 session_log>>
  /\ UNCHANGED <<dlvars, cmpvars, rsvars, bovars, chvars>>

\* a resolver task raises, and the exception leaves gather and fetch_metadata
\* (lines 359, 389, 419: no return_exceptions)
TaskRaises ==
  /\ phase \in {"cf", "gh", "mr"}
  /\ \E j \in 1..Len(tasks) :
       /\ tasks[j] = Running
       /\ tasks' = [tasks EXCEPT ![j] = Failed]
       /\ in_flight' = in_flight \ {[backend |-> phase, task |-> j]}
       /\ finished' = Append(finished, j)
  /\ session_log' = Closed(session_log, phase)
  /\ phase' = "raised"
  /\ UNCHANGED <<df, policy, ignore_set, index_map, fm_results, download_entries>>
  /\ UNCHANGED <<dlvars, cmpvars, rsvars, bovars, chvars>>

\* lines 359-387: the CurseForge gather returns, the GitHub tasks are created
CurseForgeGathered ==
  /\ phase = "cf"
  /\ \A j \in 1..Len(tasks) : tasks[j] # Running
  /\ fm_results' = MarkInvalid(Assign(fm_results, index_map, GatherValues(tasks, finished)),
                               df, "gh_bad")
  /\ session_log' = Opened(Closed(session_log, "cf"), "gh")
  /\ index_map' = RowsOf(df, {"gh"}, 1)
  /\ tasks' = NewTasks(Len(index_map'))
  /\ in_flight' = in_flight \cup Created("gh", Len(index_map'))
  /\ finished' = <<>>
  /\ phase' = "gh"
  /\ UNCHANGED <<df, policy, ignore_set, download_entries>>
  /\ UNCHANGED <<dlvars, cmpvars, rsvars, bovars, chvars>>

\* lines 389-417: the GitHub gather returns, the Modrinth tasks are created
GithubGathered ==
  /\ phase = "gh"
  /\ \A j \in 1..Len(tasks) : tasks[j] # Running
  /\ fm_results' = MarkInvalid(Assign(fm_results, index_map, GatherValues(tasks, finished)),
                               df, "mr_bad")
  /\ session_log' = Opened(Closed(session_log, "gh"), "mr")
  /\ index_map' = RowsOf(df, {"mr"}, 1)
  /\ tasks' = NewTasks(Len(index_map'))
  /\ in_flight' = in_flight \cup Created("mr", Len(index_map'))
  /\ finished' = <<>>
  /\ phase' = "mr"
  /\ UNCHANGED <<df, policy, ignore_set, download_entries>>
  /\ UNCHANGED <<dlvars, cmpvars, rsvars, bovars, chvars>>

\* lines 419-424: the Modrinth gather returns, fetch_metadata returns results
ModrinthGathered ==
  /\ phase = "mr"
  /\ \A j \in 1..Len(tasks) : tasks[j] # Running
  /\ fm_results' = Assign(fm_results, index_map, GatherValues(tasks, finished))
  /\ session_log' = Closed(session_log, "mr")
  /\ phase' = "returned"
  /\ UNCHANGED <<df, policy, ignore_set, index_map, tasks, finished, download_entries,
                 in_flight>>
  /\ UNCHANGED <<dlvars, cmpvars, rsvars, bovars, chvars>>

\* main.py lines 124-130: [... for entry in results if entry['success']]; subscripting
\* None raises TypeError
SelectDownloads ==
  /\ phase = "returned"
  /\ IF \E i \in 1..Len(fm_results) : fm_results[i] = NoEntry
       THEN /\ phase' = "main_raised"
            /\ UNCHANGED download_entries
       ELSE /\ phase' = "selected"
            /\ download_entries' = SelectSeq([i \in 1..Len(df) |-> i],
                                             LAMBDA i : fm_results[i].success)
  /\ UNCHANGED <<df, policy, ignore_set, index_map, tasks, finished, fm_results,
                 session_log, in_flight>>
  /\ UNCHANGED <<dlvars, cmpvars, rsvars, bovars, chvars>>

NextFetch ==
  \/ Begin
  \/ VerifyCompletes
  \/ VerifyGathered
  \/ TaskCompletes
  \/ TaskRaises
  \/ CurseForgeGathered
  \/ GithubGathered
  \/ ModrinthGathered
  \/ SelectDownloads

SpecFetch == InitFetch /\ [][NextFetch]_vars

(***************************************************************************)
(* Properties of the download manager                                      *)
(***************************************************************************)
Done(t) == pc[t] = "done"
TempSize(f) == IF Exists(f) THEN GetSize(f) ELSE 0
Last(q) == q[Len(q)]
\* the request started with a genuine partial download of P bytes, 0 < P < FileSize
Partial(t) ==
  /\ Exists(fs0[t].temp)
  /\ GetSize(fs0[t].temp) \in 1..(FileSize - 1)
  /\ ~Exists(fs0[t].save)
\* transfers inside `async with self.semaphore`
Active == {t \in batch : pc[t] \in {"request", "stream", "sleep"}}

\* C1: a result that is not a failure value (print_download_results counts it as a
\* success) implies that the destination holds exactly the complete artifact.
C1_SuccessMeansCompleteFile ==
  \A t \in batch :
    (Done(t) /\ result[t] \notin Failures) => save_file[t] = Artifact

\* C2: at most max_concurrent transfers are inside the semaphore section at any
\* instant, transfers that are retrying or sleeping in backoff included, and the
\* semaphore's value accounts for exactly the free slots.
C2_ConcurrencyBound ==
  /\ Cardinality(Active) <= max_concurrent
  /\ semaphore = max_concurrent - Cardinality(Active)

\* C2 witness: a batch larger than the limit, every slot taken, one holder sleeping
\* in backoff and another request still waiting for a slot.
C2_Witness ==
  /\ Cardinality(batch) > max_concurrent
  /\ Cardinality(Active) = max_concurrent
  /\ \E t \in batch : pc[t] = "sleep"
  /\ \E t \in batch : pc[t] = "acquire"

\* C3: a request that finds a partial temp file of P > 0 bytes sends every request
\* with Range offset P, and when it returns True the destination is byte-identical
\* to the artifact.
C3_ResumeIsByteIdentical ==
  \A t \in batch :
    Partial(t) =>
      /\ (log[t] # <<>> => log[t][1].range = GetSize(fs0[t].temp))
      /\ (Done(t) /\ result[t] = "True" => save_file[t] = Artifact)

\* C4: the request that follows a transient failure asks for the bytes from the
\* current size of the temp file on, and a successful response to it keeps the
\* bytes already on disk.
C4_RetryFromDiskOffset ==
  [][\A t \in batch :
       (/\ log[t] # <<>>
        /\ Len(log'[t]) = Len(log[t]) + 1
        /\ Last(log[t]).status = "error")
       => /\ Offset(Last(log'[t]).range) = TempSize(temp_file[t])
          /\ (Last(log'[t]).status = "ok" /\ Exists(temp_file[t])
                => temp_file'[t] = temp_file[t])]_vars

\* C5: the request that follows a 416 response carries no Range header.
C5_RestartFromZeroAfter416 ==
  \A t \in batch :
    \A i \in 2..Len(log[t]) :
      log[t][i - 1].status = "416" => log[t][i].range = NoRange

\* C6: a finished request has a result that is True or a failure value.
C6_ResultIsSuccessOrFailure ==
  \A t \in batch : Done(t) => result[t] \in {"True"} \cup Failures

\* every one of the max_retries attempts of t ended in a transient failure
RetryExhausted(t) ==
  /\ Done(t)
  /\ result[t] \in Failures
  /\ Len(log[t]) = max_retries
  /\ \A i \in 1..Len(log[t]) : log[t][i].status # "416"

\* C7: after retries are exhausted by transient failures neither the temp file nor
\* the destination exists.
C7_CleanupAfterRetryExhausted ==
  \A t \in batch :
    RetryExhausted(t) => ~Exists(temp_file[t]) /\ ~Exists(save_file[t])

\* C7 witness: retries exhausted for a request that had a temp file on disk and had
\* received a response (its progress bar exists).
C7_Witness ==
  \E t \in batch :
    RetryExhausted(t) /\ Exists(fs0[t].temp) /\ result[t] = "ClientError"

\* C8 as stated: after any failure result, "destination already exists" included,
\* no temp file remains.
C8_NoTempAfterAnyFailure ==
  \A t \in batch :
    (Done(t) /\ result[t] \in Failures) => ~Exists(temp_file[t])

\* C8 amended: after a failure other than the upfront "destination already exists"
\* rejection no temp file remains; that rejection leaves the temp file as it was.
C8_NoTempAfterTransferFailure ==
  \A t \in batch :
    /\ (Done(t) /\ result[t] \in Failures \ {"RuntimeError"}) => ~Exists(temp_file[t])
    /\ (Done(t) /\ result[t] = "RuntimeError") => temp_file[t] = fs0[t].temp

\* C8 witness: a transfer that received a response and opened the temp file ended
\* in a failure.
C8_Witness ==
  \E t \in batch :
    /\ Done(t)
    /\ result[t] \in Failures \ {"RuntimeError"}
    /\ \E i \in 1..Len(log[t]) : log[t][i].status = "ok"

\* C9: a destination that was not there at the start exists only after StreamEnd
\* renamed the temp file, the body having been received to its end; while a body is
\* being streamed the destination does not exist.
C9_DestinationOnlyByRename ==
  \A t \in batch :
    /\ (Exists(save_file[t]) /\ save_file[t] # fs0[t].save)
         => (Done(t) /\ result[t] = "True" /\ body[t] = <<>> /\ ~Exists(temp_file[t]))
    /\ (pc[t] = "stream" => ~Exists(save_file[t]))

\* C9 witness: chunks are in the temp file, the body is not at its end, and no
\* destination exists.
C9_Witness ==
  \E t \in batch :
    /\ pc[t] = "stream"
    /\ body[t] # <<>>
    /\ Len(temp_file[t]) > 0
    /\ ~Exists(save_file[t])

\* C10: a request whose destination exists at the start issues no HTTP request, never
\* enters the semaphore or the retry loop, leaves both files as they were and returns
\* the "already exists" failure.
C10_RejectExistingDestination ==
  \A t \in batch :
    Exists(fs0[t].save) =>
      /\ pc[t] \in {"start", "done"}
      /\ log[t] = <<>>
      /\ attempt[t] = 0
      /\ temp_file[t] = fs0[t].temp
      /\ save_file[t] = fs0[t].save
      /\ (Done(t) => result[t] = "RuntimeError")

\* C10 witness: a rejected request that also had a partial temp file.
C10_Witness ==
  \E t \in batch :
    Done(t) /\ Exists(fs0[t].save) /\ Exists(fs0[t].temp) /\ result[t] = "RuntimeError"

\* C11: the list download returns has one entry per request, and its i-th entry is
\* the value the i-th request's coroutine returned, whatever the order in which the
\* coroutines returned.
C11_ResultsInInputOrder ==
  results # <<>> =>
    /\ Len(results) = Cardinality(batch)
    /\ \A i \in batch : results[i] = result[i]

\* C11 witness: download returned after the second request finished before the
\* first, and the two have different results.
C11_Witness ==
  /\ results # <<>>
  /\ completion[1] = 2
  /\ result[1] # result[2]

(***************************************************************************)
(* Properties of the version comparison                                    *)
(***************************************************************************)
\* the normalized 3-tuple of a valid argument: an absent patch counts as 0
Normalized(v) == Append0(Parsed(v))
Parses(v) == Parsed(v) # None
\* Older <-> Newer; Consistent and InvalidVersion are their own mirrors
Mirror(st) ==
  CASE st = OlderMinor -> NewerMinor
    [] st = NewerMinor -> OlderMinor
    [] st = OlderMajor -> NewerMajor
    [] st = NewerMajor -> OlderMajor
    [] OTHER -> st
\* the first of the two calls has been made, on the arguments as first built
FirstCallForward == out_fwd # NotCalled /\ out_bwd = NotCalled
FirstCallBackward == out_bwd # NotCalled /\ out_fwd = NotCalled

\* C18: compare(a, b) is Consistent exactly when a and b have the same normalized
\* 3-tuple, in both argument orders, for strings and for parsed lists.
C18_ConsistentIffSameTuple ==
  (Parses(arg0[1]) /\ Parses(arg0[2])) =>
    /\ FirstCallForward =>
         (out_fwd = Consistent <=> Normalized(arg0[1]) = Normalized(arg0[2]))
    /\ FirstCallBackward =>
         (out_bwd = Consistent <=> Normalized(arg0[1]) = Normalized(arg0[2]))

\* C19: compare(a, b) and compare(b, a) are mirror outcomes.
C19_Antisymmetry ==
  (out_fwd # NotCalled /\ out_bwd # NotCalled) => out_bwd = Mirror(out_fwd)

\* the status C20 prescribes for compare(a, b), a and b valid with different tuples
Prescribed(a, b) ==
  IF Normalized(a)[2] = Normalized(b)[2]
    THEN IF Normalized(a)[3] > Normalized(b)[3] THEN OlderMinor ELSE NewerMinor
    ELSE IF Normalized(a)[2] > Normalized(b)[2] THEN OlderMajor ELSE NewerMajor

\* C20: for valid versions with different normalized tuples the status is the one
\* prescribed by minor and patch, in each of the two calls, and InvalidVersion is
\* returned exactly when an argument does not parse.
C20_OrderingOfDistinctVersions ==
  /\ (Parses(arg0[1]) /\ Parses(arg0[2]) /\ Normalized(arg0[1]) # Normalized(arg0[2])) =>
       /\ out_fwd # NotCalled => out_fwd = Prescribed(arg0[1], arg0[2])
       /\ out_bwd # NotCalled => out_bwd = Prescribed(arg0[2], arg0[1])
  /\ out_fwd # NotCalled =>
       (out_fwd = InvalidVersion <=> ~(Parses(arg0[1]) /\ Parses(arg0[2])))
  /\ out_bwd # NotCalled =>
       (out_bwd = InvalidVersion <=> ~(Parses(arg0[1]) /\ Parses(arg0[2])))

\* C20 witness: both calls made on two valid versions of the same minor and
\* different patches, one of them a list that the call extended.
C20_Witness ==
  /\ out_fwd = OlderMinor
  /\ out_bwd = NewerMinor
  /\ arg0[2].kind = "list"
  /\ arg2 # arg0[2]

(***************************************************************************)
(* Properties of a resolver call                                           *)
(***************************************************************************)
\* the call returned, and no request of it failed
Finished == rpc = "done" /\ outcome # Failure("connection")
\* every entry of the catalog is a plain release with all its fields
WellFormed ==
  \A i \in 1..Len(stream) :
    stream[i].elig = "ok" /\ stream[i].type = "release" /\ stream[i].file_ok
\* the versions the catalog's entries list
CandidateVersions ==
  {stream[i].versions[j] : <<i, j>> \in
     {p \in (1..Len(stream)) \X (1..MaxStream) : p[2] <= Len(stream[p[1]].versions)}}
\* the loop compares the i-th entry with the target
Evaluated(i) == Disposition(backend, stream[i]) = "eval"
\* the loop passes over the i-th entry without comparing it
Skipped(i) == Disposition(backend, stream[i]) = "skip"
\* the i-th entry is compared and is an acceptable match of the target
Matches(i) ==
  /\ Evaluated(i)
  /\ Classified[backend, target_version, stream[i]].tuple
  /\ Acceptable(Classified[backend, target_version, stream[i]].status)
MatchedVersion(i) == Classified[backend, target_version, stream[i]].version
\* the i-th entry is the best match of the catalog: no other match has a newer
\* version, and no earlier match has the same
BestMatch(k) ==
  /\ Matches(k)
  /\ \A j \in 1..Len(stream) :
       (j # k /\ Matches(j)) =>
         LET s == compare_game_version(Str(MatchedVersion(k)), Str(MatchedVersion(j))).status
         IN s = OlderMinor \/ s = OlderMajor \/ (s = Consistent /\ k < j)

\* C12: a resolver call never raises: whatever the catalog holds, the call returns
\* a Success or a Failure record.
C12_FailureIsReturnedNotRaised ==
  rpc = "done" => outcome.kind \in {"success", "failure"}

\* a finished scan over a catalog with all its fields, whose best match is at
\* position k and is followed by at least threshold entries, none of them a match
LookaheadCase(k) ==
  /\ Finished
  /\ Len(stream) - k >= checks_after_latest
  /\ \A i \in 1..Len(stream) : stream[i].elig # "nokey" /\ stream[i].file_ok
  /\ backend = "cf" => FilteredPage(target_version) = {}
  /\ \A i \in (k + 1)..Len(stream) : Skipped(i) \/ (Evaluated(i) /\ ~Matches(i))
  /\ BestMatch(k)

\* C15 as stated: with the best match at position k and only entries that are not
\* matches after it, at least threshold of them, the scan passes at most
\* k + threshold entries and returns the entry at position k.
C15_VisitsAtMostKPlusThreshold ==
  \A k \in 1..Len(stream) :
    LookaheadCase(k) =>
      /\ pos <= k + checks_after_latest
      /\ outcome = Success(MatchedVersion(k), k)

\* C15, amended: when the best match at position k is also the first match and
\* every entry after it is compared with the target, the scan passes at most
\* k + threshold entries and returns the entry at position k.  In every scan the
\* streak is the number of entries compared since the selected one (entries passed
\* over are not counted), the scan goes on only while the streak is below the
\* threshold, and a Success is the entry last selected.
C15_StopsWhenStreakReachesThreshold ==
  /\ \A k \in 1..Len(stream) :
       ( /\ Finished
         /\ \A i \in (k + 1)..Len(stream) : Evaluated(i)
         /\ LookaheadCase(k)
         /\ \A j \in 1..(k - 1) : ~Matches(j) )
       => /\ pos <= k + checks_after_latest
          /\ outcome = Success(MatchedVersion(k), k)
  /\ selected_file # 0 =>
       /\ last_latest_counter = Cardinality({i \in (selected_file + 1)..pos : Evaluated(i)})
       /\ pos = selected_file + last_latest_counter
                  + Cardinality({i \in (selected_file + 1)..pos : ~Evaluated(i)})
       /\ rpc # "done" => last_latest_counter < checks_after_latest
       /\ (rpc = "done" /\ outcome.kind = "success") =>
            /\ outcome = Success(latest_found_version, selected_file)
            /\ last_latest_counter <= checks_after_latest
            /\ pos < Len(stream) => last_latest_counter = checks_after_latest

\* C15 witness: the first match is the best one, a threshold of at least 1, and the
\* scan stopped at position k + threshold with an entry of the catalog left.
C15_Witness ==
  /\ checks_after_latest >= 1
  /\ selected_file # 0
  /\ LookaheadCase(selected_file)
  /\ \A j \in 1..(selected_file - 1) : ~Matches(j)
  /\ \A i \in (selected_file + 1)..Len(stream) : Evaluated(i)
  /\ pos = selected_file + checks_after_latest
  /\ pos < Len(stream)
  /\ outcome.kind = "success"

\* C16: target 1.21 and a catalog whose candidates are 1.20.1, 1.21 and 1.21.1:
\* the Modrinth resolver returns the candidate 1.21.
C16_ResolvesToTargetVersion ==
  ( /\ backend = "mr"
    /\ target_version = Format(<<1, 21>>)
    /\ WellFormed
    /\ CandidateVersions = {Format(<<1, 20, 1>>), Format(<<1, 21>>), Format(<<1, 21, 1>>)}
    /\ Finished )
  => /\ outcome.kind = "success"
     /\ outcome.version = Format(<<1, 21>>)

\* C17: target 1.21.1, lookahead 5, candidates 1.21 and 1.20: the CurseForge scan
\* returns 1.21; and whatever the catalog, the entry the scan has selected has the
\* target's minor and compares as Consistent or OlderMinor, never OlderMajor.
C17_OlderMinorSelectedNeverOlderMajor ==
  /\ ( /\ backend = "cf"
       /\ target_version = Format(<<1, 21, 1>>)
       /\ checks_after_latest = DefaultChecksAfterLatest
       /\ WellFormed
       /\ CandidateVersions = {Format(<<1, 21>>), Format(<<1, 20>>)}
       /\ Finished )
     => /\ outcome.kind = "success"
        /\ outcome.version = Format(<<1, 21>>)
  /\ (backend = "cf" /\ selected_file # 0) =>
       /\ check_valid_game_version(latest_found_version)[2]
            = check_valid_game_version(target_version)[2]
       /\ compare_game_version(Str(target_version), Str(latest_found_version)).status
            \in {Consistent, OlderMinor}

\* C17 witness: the scenario's catalog, 1.21 before 1.20, resolved to 1.21.
C17_Witness ==
  /\ backend = "cf"
  /\ target_version = Format(<<1, 21, 1>>)
  /\ checks_after_latest = DefaultChecksAfterLatest
  /\ stream = <<Release(<<Format(<<1, 21>>)>>), Release(<<Format(<<1, 20>>)>>)>>
  /\ rpc = "done"
  /\ outcome = Success(Format(<<1, 21>>), 1)

(***************************************************************************)
(* Properties of fetch_metadata                                            *)
(***************************************************************************)
Rows == 1..Len(df)
Returned == phase \in {"returned", "selected", "main_raised"}

\* C13: once fetch_metadata has returned, every row has a result record with a
\* boolean success field, and main's selection of the successful rows is defined.
C13_EveryRowHasResult ==
  /\ Returned => \A i \in Rows : fm_results[i] # NoEntry /\ fm_results[i].success \in BOOLEAN
  /\ phase # "main_raised"

\* C14: the list fetch_metadata returns has one position per row; a result stored
\* at position i is the result a resolver task returned for row i; and when the
\* last gather has returned, the row of each of its tasks holds that task's value,
\* whatever the order in which the tasks completed.
C14_ResultsInRowOrder ==
  /\ Len(fm_results) = Len(df)
  /\ \A i \in Rows : fm_results[i] # NoEntry => fm_results[i].mod_id = i
  /\ phase = "returned" =>
       \A j \in 1..Len(tasks) : fm_results[index_map[j]] = tasks[j].value

\* C14 witness: a list of two backends returned, the two tasks of the last backend
\* having completed in the reverse of their creation order with different results.
C14_Witness ==
  /\ phase = "returned"
  /\ \E i \in Rows : df[i] \in {"cf", "gh"} /\ fm_results[i] # NoEntry
  /\ Len(tasks) = 2
  /\ finished = <<2, 1>>
  /\ tasks[1].value.success # tasks[2].value.success
  /\ \A i \in Rows : fm_results[i] # NoEntry

(***************************************************************************)
(* compare_game_versions and fuzzy_compare_game_version                    *)
(***************************************************************************)
\* the call has returned
BestReturned == best_out # NoReturn
\* compare_game_version(target, v) on its own, away from any loop
StatusOf(target, v) == compare_game_version(target, Str(v)).status
\* the lowest status a set of statuses holds, InvalidVersion for none
Lowest(S) == CHOOSE x \in S \cup {InvalidVersion} : \A y \in S \cup {InvalidVersion} : x <= y

\* C21: compare_game_versions returns the lowest status compare_game_version(target, v)
\* yields over the versions of the list, whatever their order, with a version of the
\* list that has this status; among the versions with that status, none is newer than
\* the returned one in a compare of the two
C21_BestOfListAnyOrder ==
  (best_call = "versions" /\ BestReturned) =>
    LET I == 1..Len(best_list)
        m == Lowest({StatusOf(best_version, best_list[i]) : i \in I})
    IN /\ best_out.status = m
       /\ m # InvalidVersion =>
            /\ \E i \in I : best_list[i] = best_out.version
            /\ StatusOf(best_version, best_out.version) = m
            /\ \A j \in I :
                 StatusOf(best_version, best_list[j]) = m =>
                   StatusOf(Str(best_out.version), best_list[j]) < NewerMinor

\* the matches of the names of a fuzzy call, each split at its dots
FuzzyMatches == [i \in 1..Len(MatchesOf(best_list)) |-> Split(MatchesOf(best_list)[i])]
\* the names hold one version, of the target's minor and of a greater patch
SoleGreaterPatch ==
  /\ best_call = "fuzzy"
  /\ BestReturned
  /\ Len(FuzzyMatches) = 1
  /\ LET t == check_valid_game_version(best_version)
         m == check_valid_game_version(FuzzyMatches[1])
     IN /\ t # None
        /\ m # None
        /\ m[2] = t[2]
        /\ Append0(m)[3] > Append0(t)[3]
\* the call of the example: "Release for MC 1.20.4 (stable)" against "1.20"
ScenarioCall ==
  /\ best_call = "fuzzy"
  /\ BestReturned
  /\ best_version = Format(<<1, 20>>)
  /\ best_list = <<ScenarioText>>

\* C22 as stated: "Release for MC 1.20.4 (stable)" against "1.20" gives "1.20.4" as
\* OlderMinor, and so does every text whose only version has the target's minor and a
\* greater patch
C22_GreaterPatchIsOlderMinor ==
  /\ ScenarioCall =>
       best_out = [tuple |-> TRUE, status |-> OlderMinor, version |-> Format(<<1, 20, 4>>)]
  /\ SoleGreaterPatch => best_out.status = OlderMinor /\ best_out.version = FuzzyMatches[1]

\* C22, amended: "Release for MC 1.20.4 (stable)" against "1.20" gives "1.20.4" as
\* NewerMinor, and so does every text whose only version has the target's minor and a
\* greater patch
C22_GreaterPatchIsNewerMinor ==
  /\ ScenarioCall =>
       best_out = [tuple |-> TRUE, status |-> NewerMinor, version |-> Format(<<1, 20, 4>>)]
  /\ SoleGreaterPatch => best_out.status = NewerMinor /\ best_out.version = FuzzyMatches[1]

C22_Witness ==
  /\ ScenarioCall
  /\ SoleGreaterPatch
  /\ best_out.status = NewerMinor
  /\ best_out.version = Format(<<1, 20, 4>>)

\* C23: fuzzy_compare_game_version returns the lowest status compare_game_version
\* yields over all the matches of the names; of the matches with that status it
\* returns the first in scan order (so a Consistent match ends the scan)
C23_BestMatchFirstWins ==
  (best_call = "fuzzy" /\ BestReturned /\ check_valid_game_version(best_version) # None) =>
    LET I == 1..Len(FuzzyMatches)
        st(i) == StatusOf(Str(best_version), FuzzyMatches[i])
        m == Lowest({st(i) : i \in I})
    IN /\ best_out.status = m
       /\ m # InvalidVersion =>
            \E i \in I : /\ st(i) = m
                         /\ \A j \in 1..(i - 1) : st(j) # m
                         /\ best_out.version = FuzzyMatches[i]

(***************************************************************************)
(* fetch_metadata: verification, sessions                                  *)
(***************************************************************************)
\* the CurseForge rows of the list, in list order: the j-th verification task is
\* the one created for CurseForgeRows[j]
CurseForgeRows == RowsOf(df, {"cf"}, 1)

\* C24: under the 'error' policy, when the verification results are in, a resolver
\* task is created for a CurseForge row if and only if the verification of that row
\* returned VERIFIED, whatever rows precede it or lie between the CurseForge rows
C24_ErrorPolicyExcludesUnverified ==
  [][(phase = "verify" /\ phase' = "cf" /\ policy = "error") =>
       \A j \in 1..Len(CurseForgeRows) :
         (tasks[j].value = VERIFIED) <=>
           (\E k \in 1..Len(index_map') : index_map'[k] = CurseForgeRows[j])]_vars

\* the backend whose session is open, "none" if no session is
OpenSession ==
  IF Len(session_log) > 0 /\ session_log[Len(session_log)].op = "open"
    THEN session_log[Len(session_log)].backend
    ELSE "none"

\* C27: the backends are resolved one after another: a session is opened only after
\* the session opened before it was closed, the tasks in flight while a session is
\* open are all tasks of that session's backend, and tasks of two backends are never
\* in flight together
C27_BackendsOneAfterAnother ==
  /\ \A k \in 1..Len(session_log) :
       IF k % 2 = 1 THEN session_log[k].op = "open"
       ELSE session_log[k].op = "close" /\ session_log[k].backend = session_log[k - 1].backend
  /\ \A t \in in_flight : OpenSession # "none" => t.backend = OpenSession
  /\ \A t, u \in in_flight : t.backend = u.backend
  /\ phase \in {"verify", "cf", "gh", "mr"} =>
       /\ OpenSession = (IF phase = "verify" THEN "cf" ELSE phase)
       /\ \A j \in 1..Len(tasks) :
            tasks[j] = Running <=> [backend |-> OpenSession, task |-> j] \in in_flight

C27_Witness ==
  /\ phase = "mr"
  /\ in_flight # {}
  /\ session_log = <<[op |-> "open", backend |-> "cf"], [op |-> "close", backend |-> "cf"],
                     [op |-> "open", backend |-> "gh"], [op |-> "close", backend |-> "gh"],
                     [op |-> "open", backend |-> "mr"]>>
  /\ \E i, j \in 1..Len(fm_results) :
       /\ df[i] = "cf" /\ fm_results[i] # NoEntry
       /\ df[j] = "gh" /\ fm_results[j] # NoEntry

(***************************************************************************)
(* get_with_cache                                                          *)
(***************************************************************************)
\* the cache entry of request r exists and has not expired
EntryValid(r) ==
  /\ cache_dir[CacheFileName(r)].mtime >= 0
  /\ now - cache_dir[CacheFileName(r)].mtime < cache_expire * 24 * 3600
\* every cache file reads back as the body and the Link value of the response that
\* was written to it
EntryKeepsResponse ==
  \A f \in CacheFiles :
    cache_dir[f] # NoCacheFile =>
      /\ written[f].kind = "miss"
      /\ ReadCache(cache_dir[f].content) = [body |-> written[f].body, link |-> written[f].link]
\* a call on a valid entry returns at once what populated the entry, with no request;
\* any other call issues one request and leaves the cache as it is until the answer
CallStep ==
  \A c \in Callers : \A r \in CachedRequests :
    GetWithCache(c, r) =>
      IF EntryValid(r)
        THEN /\ requests' = requests
             /\ call' = call
             /\ ret' = Returned_("hit", c, written[CacheFileName(r)].body,
                                 written[CacheFileName(r)].link)
        ELSE /\ requests' = requests + 1
             /\ call'[c] = r
             /\ ret' = ret
\* the answer to a miss is returned and persisted under the request's file name
MissStep ==
  \A c \in Callers : \A resp \in Responses :
    (Respond(c, resp) /\ resp.status = 200) =>
      /\ ret' = Returned_("miss", c, resp.body, resp.link)
      /\ cache_dir'[CacheFileName(call[c])].mtime = now
      /\ ReadCache(cache_dir'[CacheFileName(call[c])].content)
           = [body |-> resp.body, link |-> resp.link]

\* C28: get_with_cache on a request whose cache entry exists and has not expired
\* issues no network request and returns the body and the Link value of the response
\* that populated the entry; a miss issues the request and then persists body and
\* Link value under the request's file name
C28_CacheHitReturnsWhatWasFetched ==
  /\ []EntryKeepsResponse
  /\ [][CallStep /\ MissStep]_vars

C28_Witness ==
  /\ ret.kind = "hit"
  /\ ret.link # NoLink
  /\ requests = 1
  /\ now > 0
  /\ \E f \in CacheFiles :
       /\ written[f].caller # ret.caller
       /\ written[f].body = ret.body
       /\ written[f].link = ret.link

(***************************************************************************)
(* The resolvers: filtered query, exhaustion, adoption, streak             *)
(***************************************************************************)
\* the CurseForge call ended after a filtered query that found files
FilteredCase ==
  /\ backend = "cf"
  /\ rpc = "done"
  /\ FilteredPage(target_version) # {}
  /\ outcome # Failure("connection")
\* is i the entry the filtered branch is to return: the first final release of the
\* page, or the first entry when the page has no final release
FirstReleaseElseFirst(i) ==
  LET page == FilteredPage(target_version)
  IN /\ i \in page
     /\ IF \E r \in page : stream[r].type = "release"
          THEN stream[i].type = "release"
               /\ \A r \in page : stream[r].type = "release" => i <= r
          ELSE \A r \in page : i <= r

\* C25: when the CurseForge query filtered by the target version reports files, the
\* call returns the first final release of that page, or the first entry of the page
\* if it holds no final release (a Failure if that file lacks its fields), and the
\* scan of the unfiltered catalog is not run
C25_FilteredQueryReturnsFirstRelease ==
  FilteredCase =>
    /\ pos = 0
    /\ selected_file = 0
    /\ last_latest_counter = -1
    /\ \E i \in 1..Len(stream) :
         /\ FirstReleaseElseFirst(i)
         /\ outcome = IF stream[i].file_ok THEN Success(target_version, i)
                      ELSE Failure("parse")

C25_Witness ==
  /\ FilteredCase
  /\ outcome.kind = "success"
  /\ stream[outcome.file].type = "release"
  /\ \E i \in FilteredPage(target_version) : i < outcome.file /\ stream[i].type = "beta"

\* a no-match Failure is returned only with every entry passed and nothing selected
NoMatchOnlyWhenExhausted ==
  outcome = Failure("nomatch") =>
    /\ pos = Len(stream)
    /\ selected_file = 0
    /\ latest_found_version = None
\* the step taken when the pages have run out (or the catalog is empty): no match if
\* nothing was selected, else the selected file with the version found for it
ExhaustedStep ==
  /\ rpc = "end" =>
       /\ selected_file = 0 => outcome' = Failure("nomatch")
       /\ (selected_file # 0 /\ stream[selected_file].file_ok) =>
            outcome' = Success(latest_found_version, selected_file)
  /\ (rpc = "start" /\ Len(stream) = 0 /\ outcome' # Failure("connection")) =>
       outcome' = Failure("nomatch")
\* CurseForge: the first request leads into the scan only if the filtered query found
\* nothing, and always does so then unless a request fails or the page cannot be read
ScanIffFilteredEmpty ==
  (backend = "cf" /\ rpc = "start") =>
    /\ rpc' = "scan" => FilteredPage(target_version) = {}
    /\ (FilteredPage(target_version) = {} /\ Len(stream) > 0 /\ PageParses(1)
          /\ outcome' # Failure("connection")) => rpc' = "scan"
    /\ FilteredPage(target_version) # {} => rpc' = "done" /\ pos' = 0

\* C26: a resolver returns the no-match Failure if and only if the pages ran out with
\* nothing selected; when they run out with a file selected, the streak still below
\* the threshold, it returns that file as Success (the file having its fields); the
\* CurseForge scan runs exactly when the filtered query found nothing
C26_NoMatchIffExhaustedWithoutBest ==
  /\ []NoMatchOnlyWhenExhausted
  /\ [][ExhaustedStep /\ ScanIffFilteredEmpty]_vars

C26_Witness ==
  /\ rpc = "done"
  /\ outcome.kind = "success"
  /\ pos = Len(stream)
  /\ selected_file # 0
  /\ selected_file < pos
  /\ ~Reached(last_latest_counter, checks_after_latest)

\* v is a newer version than l: a greater minor, or the same minor and a greater
\* patch, an absent patch counting as 0
StrictlyNewer(v, l) ==
  LET a == Append0(check_valid_game_version(v))
      b == Append0(check_valid_game_version(l))
  IN a[2] > b[2] \/ (a[2] = b[2] /\ a[3] > b[3])
\* the candidate at position i has the version of the selected file and wins on
\* quality: a release over a selected beta (mr), a prerelease over a selected
\* release (gh)
WinsTieBreak(i) ==
  /\ selected_file # 0
  /\ MatchedVersion(i) = latest_found_version
  /\ \/ backend = "mr" /\ stream[selected_file].type = "beta" /\ stream[i].type = "release"
     \/ backend = "gh" /\ stream[selected_file].type = "release" /\ stream[i].type = "beta"

\* C29: when the scan compares an acceptable candidate, the candidate becomes the
\* selection and the counter is set to 0 exactly when nothing is selected yet, or the
\* candidate's version is strictly newer than the selected one, or it wins the
\* backend's tie-break; otherwise the selection stays and the counter grows by 1
C29_AdoptOnlyWhenNewer ==
  [][(rpc = "scan" /\ pos' = pos + 1 /\ Matches(pos + 1)) =>
       IF \/ latest_found_version = None
          \/ StrictlyNewer(MatchedVersion(pos + 1), latest_found_version)
          \/ WinsTieBreak(pos + 1)
         THEN /\ selected_file' = pos + 1
              /\ latest_found_version' = MatchedVersion(pos + 1)
              /\ last_latest_counter' = 0
         ELSE /\ selected_file' = selected_file
              /\ latest_found_version' = latest_found_version
              /\ last_latest_counter' = last_latest_counter + 1]_vars

\* C29 witness: the CurseForge scan has just replaced the file selected first by a
\* later one of a newer version
C29_Witness ==
  /\ backend = "cf"
  /\ rpc = "scan"
  /\ selected_file = pos
  /\ last_latest_counter = 0
  /\ \E i \in 1..(pos - 1) :
       /\ Matches(i)
       /\ StrictlyNewer(latest_found_version, MatchedVersion(i))

\* C30: as long as no file is selected the counter keeps its initial value -1, the
\* threshold test fails for every threshold >= 0, and the scan neither returns a file
\* nor reports no match before the last entry
C30_StreakIdleBeforeFirstBest ==
  selected_file = 0 =>
    /\ last_latest_counter = -1
    /\ latest_found_version = None
    /\ ~Reached(last_latest_counter, checks_after_latest)
    /\ outcome.kind = "success" => FilteredCase
    /\ outcome = Failure("nomatch") => pos = Len(stream)

\* C30 witness: threshold 0, and the scan has passed a whole catalog of candidates
\* that were compared and were not acceptable
C30_Witness ==
  /\ checks_after_latest = 0
  /\ selected_file = 0
  /\ rpc = "end"
  /\ pos = Len(stream)
  /\ pos >= 2
  /\ \A i \in 1..pos : Evaluated(i) /\ ~Matches(i)

\* the entry at position i is an acceptable match whose version is the version of
\* the selected file
EqualsBest(i) ==
  /\ selected_file # 0
  /\ Classified[backend, target_version, stream[i]].tuple
  /\ Acceptable(Classified[backend, target_version, stream[i]].status)
  /\ Append0(check_valid_game_version(MatchedVersion(i)))
       = Append0(check_valid_game_version(latest_found_version))
\* quality a is strictly better than quality b: a release against a beta or prerelease
Better(a, b) == a = "release" /\ b = "beta"

\* C31: on GitHub and Modrinth, when the scan compares a candidate whose version is
\* that of the selected file, the candidate becomes the selection, with the counter
\* set to 0, if its quality is strictly better than the selected file's, and the
\* selection stays if its quality is equal or worse; an entry the loop passes over
\* without comparing it (a GitHub prerelease among them) never replaces the selection
C31_BetterQualityWinsAtEqualVersion ==
  [][(backend \in {"gh", "mr"} /\ rpc = "scan" /\ pos' = pos + 1 /\ selected_file # 0) =>
       /\ (Evaluated(pos + 1) /\ EqualsBest(pos + 1)) =>
            IF Better(stream[pos + 1].type, stream[selected_file].type)
              THEN /\ selected_file' = pos + 1
                   /\ latest_found_version' = MatchedVersion(pos + 1)
                   /\ last_latest_counter' = 0
              ELSE /\ selected_file' = selected_file
                   /\ latest_found_version' = latest_found_version
       /\ Skipped(pos + 1) =>
            /\ selected_file' = selected_file
            /\ last_latest_counter' = last_latest_counter]_vars

\* C31 witness: the Modrinth scan selected a beta first and has just replaced it by
\* a release of the same version
C31_Witness ==
  /\ backend = "mr"
  /\ pos = 2
  /\ selected_file = 2
  /\ last_latest_counter = 0
  /\ Matches(1)
  /\ MatchedVersion(1) = latest_found_version
  /\ stream[1].type = "beta"
  /\ stream[2].type = "release"

\* the call returned a file its scan loop selected
ScanSuccess ==
  /\ rpc = "done"
  /\ outcome.kind = "success"
  /\ ~(backend = "cf" /\ FilteredPage(target_version) # {})
\* the patch number of a version string, 0 when it has none
PatchOf(v) == Append0(check_valid_game_version(v))[3]

\* C32: a file returned as Success by a scan loop is one the loop compared and found
\* Consistent or OlderMinor; the version returned with it has the target's minor and
\* a patch not above the target's; and no acceptable version of an entry the scan
\* compared before it stopped has a patch above the returned one
C32_SuccessIsBestAcceptableVisited ==
  ScanSuccess =>
    /\ outcome.file = selected_file
    /\ Matches(outcome.file)
    /\ MatchedVersion(outcome.file) = outcome.version
    /\ StatusOf(Str(target_version), outcome.version) \in {Consistent, OlderMinor}
    /\ check_valid_game_version(outcome.version)[2] = check_valid_game_version(target_version)[2]
    /\ PatchOf(outcome.version) <= PatchOf(target_version)
    /\ \A i \in 1..pos :
         /\ Matches(i) => PatchOf(MatchedVersion(i)) <= PatchOf(outcome.version)
         /\ Evaluated(i) =>
              \A j \in 1..Len(stream[i].versions) :
                StatusOf(Str(target_version), stream[i].versions[j]) \in {Consistent, OlderMinor}
                  => PatchOf(stream[i].versions[j]) <= PatchOf(outcome.version)

\* C32 witness: target 1.21.2, and the scan returns 1.21.1 after it also compared an
\* acceptable 1.21
C32_Witness ==
  /\ ScanSuccess
  /\ target_version = Format(<<1, 21, 2>>)
  /\ outcome.version = Format(<<1, 21, 1>>)
  /\ \E i \in 1..pos : Matches(i) /\ MatchedVersion(i) = Format(<<1, 21>>)

\* ---- retry budget and termination ----
\* the HTTP requests a coroutine has issued so far
Issued(t) == Len(log[t])
\* the loop variable counts the requests: before the request of an iteration as many
\* requests were issued as iterations were used up, after it one more
AttemptCountsRequests ==
  \A t \in batch :
    /\ attempt[t] \in 0..(max_retries - 1)
    /\ Issued(t) <= max_retries
    /\ pc[t] \in {"start", "acquire"} => Issued(t) = 0
    /\ pc[t] = "request" => Issued(t) = attempt[t]
    /\ pc[t] \in {"stream", "sleep"} => Issued(t) = attempt[t] + 1
    /\ Done(t) => Issued(t) <= attempt[t] + 1
\* a transient failure or a 416 that does not end the call moves on to the next attempt
FailureConsumesAttempt ==
  \A t \in batch :
    /\ (pc[t] = "sleep" /\ pc'[t] = "request") => attempt'[t] = attempt[t] + 1
    /\ (pc[t] = "request" /\ pc'[t] = "request" /\ Issued(t)' = Issued(t) + 1)
         => Last(log'[t]).status = "416" /\ attempt'[t] = attempt[t] + 1
    /\ (pc[t] \in {"request", "stream"} /\ pc'[t] = "sleep") => attempt[t] < max_retries - 1

\* C33: every download request returns, whatever the server answers, after at most
\* max_retries HTTP requests; each transient failure and each 416 uses up one
\* iteration of the retry loop
C33_TerminatesWithinRetryBudget ==
  /\ []AttemptCountsRequests
  /\ [][FailureConsumesAttempt]_vars
  /\ <>(\A t \in batch : Done(t))

\* C33 witness: a request returned after max_retries requests, one answered 416 and
\* one failed
C33_Witness ==
  \E t \in batch :
    /\ Done(t)
    /\ Issued(t) = max_retries
    /\ \E i, j \in 1..Issued(t) : log[t][i].status = "416" /\ log[t][j].status = "error"

\* ---- the admission slot during the retry loop ----
\* every transfer between its admission and its return holds exactly one slot,
\* a sleeping one included
SlotsHeld == semaphore = max_concurrent - Cardinality(Active)
\* a request is admitted in this step
Admitted(t) == pc[t] = "acquire" /\ pc'[t] = "request"

\* C34: a transfer holds its slot from its admission until it returns, also while it
\* sleeps between attempts; a request is admitted only while fewer than
\* max_concurrent transfers, sleeping ones counted, hold a slot, and a slot comes
\* back only in the step in which its transfer returns
C34_SlotHeldAcrossBackoff ==
  /\ []SlotsHeld
  /\ [][/\ \A t \in batch : Admitted(t) => Cardinality(Active) < max_concurrent
        /\ semaphore' > semaphore => \E t \in Active : Done(t)'
        /\ \A t \in batch : (pc[t] \in {"request", "stream"} /\ pc'[t] = "sleep")
                              => semaphore' = semaphore]_vars

\* C34 witness: a request is admitted after the transfer that held the only slot
\* through a backoff sleep has returned
C34_Witness ==
  \E t, u \in batch :
    /\ t # u
    /\ Done(t)
    /\ Issued(t) >= 2
    /\ log[t][1].status = "error"
    /\ pc[u] = "request"
    /\ max_concurrent = 1

\* ---- a later page that cannot be fetched ----
\* the call waits for a page after the first while it has a file selected
LaterPageWithBest == rpc = "fetch" /\ selected_file # 0
\* the call ended while it waited for that page: the request failed, or (CurseForge)
\* the page arrived without its 'data'
EndsAtFetch == rpc = "fetch" /\ rpc' = "done"

\* C35: a page after the first is requested only by the CurseForge unfiltered scan
\* and by GitHub, at a page boundary; when that request fails while a file is
\* selected the call returns a connection Failure, and no call that ends while
\* waiting for a later page returns Success or the selected file
C35_LaterPageFailureDiscardsBest ==
  /\ [](rpc = "fetch" => backend \in {"cf", "gh"} /\ pos > 0 /\ pos % PageSize = 0 /\ pos < Len(stream))
  /\ [][(LaterPageWithBest /\ EndsAtFetch) =>
          /\ outcome'.kind = "failure"
          /\ \/ outcome' = Failure("connection")
             \/ backend = "cf" /\ ~PageParses(PageOf(pos + 1)) /\ outcome' = Failure("parse")
          /\ selected_file' = selected_file]_vars

\* C35 witness: GitHub, a release of the first page was selected, the request for the
\* second page failed and the call returned a connection Failure
C35_Witness ==
  /\ backend = "gh"
  /\ rpc = "done"
  /\ outcome = Failure("connection")
  /\ selected_file # 0
  /\ pos = PageSize
  /\ Len(stream) > PageSize

====
